---- MODULE Spec2Model ----
(***************************************************************************)
(* Model of the indexer core of nightly-labs/sui:                          *)
(*   - the ordered publisher (crates/sui-types/src/nats_queue.rs): two     *)
(*     consumer tasks that reorder per-checkpoint batches;                 *)
(*   - the balance-change engines (crates/sui-json-rpc/src/                *)
(*     balance_changes.rs);                                                *)
(*   - the object-change engines (crates/sui-json-rpc/src/                 *)
(*     object_changes.rs).                                                 *)
(***************************************************************************)
EXTENDS Integers, Sequences, FiniteSets, TLC

VARIABLES
    \* ---- ordered publisher (nats_queue.rs) ----
    init_checkpoint,   \* NatsQueueSender.init_checkpoint
    ws_mailbox,        \* batches in flight on the ws mpsc channel
    ws_next_index,     \* ws task: next_index
    ws_bmap,           \* ws task: bmap_checkpoints
    ws_published,      \* calls of odin.publish_sui_ws_update, in order
    ws_sent,           \* seq numbers of the "Sending: ..." log lines, in order
    ws_trace,          \* one record per iteration of the ws receive loop
    ws_count,          \* number of batches enqueued so far on the ws channel
    ws_open,           \* some Sender of the ws channel is alive
    ws_running,        \* the ws task is in its receive loop
    nt_mailbox,        \* batches in flight on the notifications mpsc channel
    nt_next_index,     \* notifications task: next_index
    nt_bmap,           \* notifications task: bmap_checkpoints
    nt_published,      \* calls of odin.publish_sui_notifications, in order
    nt_sent,           \* seq numbers of the "Sending: ..." log lines, in order
    nt_trace,          \* one record per iteration of the notifications loop
    nt_count,          \* number of batches enqueued on the notifications channel
    nt_open,           \* some Sender of the notifications channel is alive
    nt_running,        \* the notifications task is in its receive loop
    \* ---- change engines (balance_changes.rs, object_changes.rs) ----
    provider,          \* the object provider's store: (id, version) -> Object
    tx,                \* the transaction handed to an engine (effects and snapshots)
    call,              \* the engine call made on tx, with its arguments
    result,            \* what the call returned
    lookups,           \* provider calls issued by the call, in order
    \* ---- ObjectProviderCache (balance_changes.rs) ----
    object_cache,      \* (id, version) -> Object
    last_version_cache \* (id, queried version) -> resolved version

queue_vars == <<init_checkpoint, ws_mailbox, ws_next_index, ws_bmap, ws_published,
                ws_sent, ws_trace, ws_count, nt_mailbox, nt_next_index, nt_bmap,
                nt_published, nt_sent, nt_trace, nt_count, ws_open, ws_running,
                nt_open, nt_running>>
ws_vars == <<ws_mailbox, ws_next_index, ws_bmap, ws_published, ws_sent, ws_trace, ws_count,
             ws_open, ws_running>>
nt_vars == <<nt_mailbox, nt_next_index, nt_bmap, nt_published, nt_sent, nt_trace, nt_count,
             nt_open, nt_running>>
cache_vars == <<object_cache, last_version_cache>>
engine_vars == <<provider, tx, call, result, lookups, cache_vars>>
vars == <<queue_vars, engine_vars>>

----------------------------------------------------------------------------
(* Bounds of the model. *)

\* Width, in bits, of the model's stand-in for u64 (the index type).
IndexBits == 5
\* Checkpoint sequence numbers of the enqueued batches are 0..MaxSeq.
MaxSeq == 3
\* A preset init_checkpoint is one of 0..MaxInit.
MaxInit == 1
\* Batches enqueued on one channel in one behaviour.
MaxBatches == 3

\* u64::MAX: the value of next_index that means "no message received yet".
U64_MAX == 2 ^ IndexBits - 1
\* Capacity of each mpsc channel.
ChannelCapacity == 10000

Seqs == 0 .. MaxSeq

----------------------------------------------------------------------------
(* Generic helpers. *)

Range(s) == {s[i] : i \in 1 .. Len(s)}

\* BTreeMap::remove(&k): the map without key k.
MapRemove(m, k) == [x \in DOMAIN m \ {k} |-> m[x]]

\* BTreeMap::insert(k, v).
MapInsert(m, k, v) == [x \in DOMAIN m \cup {k} |-> IF x = k THEN v ELSE m[x]]

EmptyMap == [x \in {} |-> 0]

\* next_index + 1 on u64 (wrapping, as in a release build).
AddOne(n) == (n + 1) % (U64_MAX + 1)

----------------------------------------------------------------------------
(* Ordered publisher: payloads. *)

\* The messages of the k-th batch enqueued on the ws channel: a Vec<SuiWsApiMsg>
\* of one or two messages, each message distinct from every other one.
WsMsgs(k) == [i \in 1 .. (1 + (k % 2)) |-> <<k, i>>]

\* BTreeMap iteration: the values in ascending key order.
RECURSIVE MapValues(_)
MapValues(m) ==
    IF DOMAIN m = {} THEN <<>>
    ELSE LET k == CHOOSE x \in DOMAIN m : \A y \in DOMAIN m : x <= y
         IN <<m[k]>> \o MapValues(MapRemove(m, k))

\* BTreeMap::extend(other): other's entries inserted, replacing equal keys.
MapExtend(m, other) ==
    [x \in DOMAIN m \cup DOMAIN other |-> IF x \in DOMAIN other THEN other[x] ELSE m[x]]

----------------------------------------------------------------------------
(* Ordered publisher: the ws task. *)

\* WsDrain with `if let` for `while let`: at most one buffered batch is released.
WsDrainOnce(st) ==
    IF st.next_index \in DOMAIN st.bmap
    THEN [next_index |-> AddOne(st.next_index),
          bmap       |-> MapRemove(st.bmap, st.next_index),
          published  |-> st.published \o st.bmap[st.next_index],
          sent       |-> Append(st.sent, st.next_index)]
    ELSE st

\* Lines 80-93: while let Some(next_checkpoint) = bmap_checkpoints.remove(&next_index).
RECURSIVE WsDrain(_)
WsDrain(st) ==
    IF st.next_index \in DOMAIN st.bmap
    THEN WsDrain([next_index |-> AddOne(st.next_index),
                  bmap       |-> MapRemove(st.bmap, st.next_index),
                  published  |-> st.published \o st.bmap[st.next_index],
                  sent       |-> Append(st.sent, st.next_index)])
    ELSE st

\* Lines 100-103: bmap_checkpoints.entry(seq).or_insert(vec![]).extend(ws_updates).
WsBuffer(bmap, seq, msgs) ==
    MapInsert(bmap, seq, IF seq \in DOMAIN bmap THEN bmap[seq] \o msgs ELSE msgs)

\* Lines 61-63: the index an iteration compares the batch with.
WsExpected(next_index, seq) == IF next_index = U64_MAX THEN seq ELSE next_index

\* WsInOrder with >= for ==: a batch ahead of the index is taken as in order.
WsInOrderAhead(seq, expected) == seq >= expected

\* WsInOrder with <= for ==: a batch behind the index is taken as in order.
WsInOrderBehind(seq, expected) == seq <= expected

\* Line 65: "Check if correct order".
WsInOrder(seq, expected) == seq = expected

\* Lines 60-104: one iteration of the receive loop on batch b.
WsStep(st, b) ==
    LET expected == WsExpected(st.next_index, b.seq)
    IN IF WsInOrder(b.seq, expected)
       THEN WsDrain([next_index |-> AddOne(expected),
                     bmap       |-> st.bmap,
                     published  |-> st.published \o b.msgs,
                     sent       |-> Append(st.sent, b.seq)])
       ELSE [next_index |-> expected,
             bmap       |-> WsBuffer(st.bmap, b.seq, b.msgs),
             published  |-> st.published,
             sent       |-> st.sent]

WsState == [next_index |-> ws_next_index, bmap |-> ws_bmap,
            published |-> ws_published, sent |-> ws_sent]

\* A producer sends a batch on ws_sender.
WsSend(s) ==
    /\ ws_open
    /\ ws_count < MaxBatches
    /\ Len(ws_mailbox) < ChannelCapacity
    /\ ws_count' = ws_count + 1
    /\ ws_mailbox' = Append(ws_mailbox, [seq |-> s, msgs |-> WsMsgs(ws_count + 1)])
    /\ UNCHANGED <<init_checkpoint, ws_next_index, ws_bmap, ws_published, ws_sent,
                   ws_trace, ws_open, ws_running, nt_vars, engine_vars>>

\* The ws task receives the next batch and runs one iteration of its loop.
WsRecv ==
    /\ ws_running
    /\ ws_mailbox # <<>>
    /\ LET b  == Head(ws_mailbox)
           st == WsStep(WsState, b)
       IN /\ ws_next_index' = st.next_index
          /\ ws_bmap' = st.bmap
          /\ ws_published' = st.published
          /\ ws_sent' = st.sent
          /\ ws_trace' = Append(ws_trace,
                 [seq |-> b.seq, msgs |-> b.msgs,
                  expected |-> WsExpected(ws_next_index, b.seq),
                  next_after |-> st.next_index, open |-> ws_open])
    /\ ws_mailbox' = Tail(ws_mailbox)
    /\ UNCHANGED <<init_checkpoint, ws_count, ws_open, ws_running, nt_vars, engine_vars>>

\* The last Sender of the ws channel is dropped: the channel is closed.
WsClose ==
    /\ ws_open
    /\ ws_open' = FALSE
    /\ UNCHANGED <<init_checkpoint, ws_mailbox, ws_next_index, ws_bmap, ws_published,
                   ws_sent, ws_trace, ws_count, ws_running, nt_vars, engine_vars>>

\* WsExit leaving the loop as soon as the channel is closed, batches still queued.
WsExitUndrained ==
    /\ ws_running
    /\ ~ws_open
    /\ ws_running' = FALSE
    /\ UNCHANGED <<init_checkpoint, ws_mailbox, ws_next_index, ws_bmap, ws_published,
                   ws_sent, ws_trace, ws_count, ws_open, nt_vars, engine_vars>>

\* Line 59: recv() returns None on a closed and empty channel; the `while let`
\* ends and with it the task, dropping next_index and bmap_checkpoints.
WsExit ==
    /\ ws_running
    /\ ~ws_open
    /\ ws_mailbox = <<>>
    /\ ws_running' = FALSE
    /\ UNCHANGED <<init_checkpoint, ws_mailbox, ws_next_index, ws_bmap, ws_published,
                   ws_sent, ws_trace, ws_count, ws_open, nt_vars, engine_vars>>

----------------------------------------------------------------------------
(* Ordered publisher: the notifications task. *)

\* Lines 148-161: the drain loop.  Its body iterates `notifications`, the map of
\* the batch just received (line 155), not `next_checkpoint`.
RECURSIVE NtDrain(_, _)
NtDrain(st, notifications) ==
    IF st.next_index \in DOMAIN st.bmap
    THEN NtDrain([next_index |-> AddOne(st.next_index),
                  bmap       |-> MapRemove(st.bmap, st.next_index),
                  published  |-> st.published \o MapValues(notifications),
                  sent       |-> Append(st.sent, st.next_index)],
                 notifications)
    ELSE st

\* Lines 168-171: bmap_checkpoints.entry(seq).or_insert(BTreeMap::new()).extend(..).
NtBuffer(bmap, seq, notifications) ==
    MapInsert(bmap, seq,
              IF seq \in DOMAIN bmap THEN MapExtend(bmap[seq], notifications)
              ELSE notifications)

\* Lines 127-172: one iteration of the receive loop on batch b.
NtStep(st, b) ==
    LET expected == WsExpected(st.next_index, b.seq)
    IN IF WsInOrder(b.seq, expected)
       THEN NtDrain([next_index |-> AddOne(expected),
                     bmap       |-> st.bmap,
                     published  |-> st.published \o MapValues(b.notifications),
                     sent       |-> Append(st.sent, b.seq)],
                    b.notifications)
       ELSE [next_index |-> expected,
             bmap       |-> NtBuffer(st.bmap, b.seq, b.notifications),
             published  |-> st.published,
             sent       |-> st.sent]

NtState == [next_index |-> nt_next_index, bmap |-> nt_bmap,
            published |-> nt_published, sent |-> nt_sent]

\* A producer sends a batch on notifications_sender.  The notifications of the
\* k-th batch enqueued are a BTreeMap<u64, Vec<SuiIndexerNotification>> with
\* inner keys 0 or 0 and 1; the Vec under inner key j is the token <<k, j>>.
NtSend(s) ==
    /\ nt_open
    /\ nt_count < MaxBatches
    /\ Len(nt_mailbox) < ChannelCapacity
    /\ nt_count' = nt_count + 1
    /\ nt_mailbox' = Append(nt_mailbox,
                            [seq |-> s,
                             notifications |-> [j \in 0 .. ((nt_count + 1) % 2) |->
                                                   <<nt_count + 1, j>>]])
    /\ UNCHANGED <<init_checkpoint, nt_next_index, nt_bmap, nt_published, nt_sent,
                   nt_trace, nt_open, nt_running, ws_vars, engine_vars>>

\* The notifications task receives the next batch and runs one iteration.
NtRecv ==
    /\ nt_running
    /\ nt_mailbox # <<>>
    /\ LET b  == Head(nt_mailbox)
           st == NtStep(NtState, b)
       IN /\ nt_next_index' = st.next_index
          /\ nt_bmap' = st.bmap
          /\ nt_published' = st.published
          /\ nt_sent' = st.sent
          /\ nt_trace' = Append(nt_trace,
                 [seq |-> b.seq, notifications |-> b.notifications,
                  expected |-> WsExpected(nt_next_index, b.seq),
                  next_after |-> st.next_index, open |-> nt_open])
    /\ nt_mailbox' = Tail(nt_mailbox)
    /\ UNCHANGED <<init_checkpoint, nt_count, nt_open, nt_running, ws_vars, engine_vars>>

\* The last Sender of the notifications channel is dropped.
NtClose ==
    /\ nt_open
    /\ nt_open' = FALSE
    /\ UNCHANGED <<init_checkpoint, nt_mailbox, nt_next_index, nt_bmap, nt_published,
                   nt_sent, nt_trace, nt_count, nt_running, ws_vars, engine_vars>>

\* Line 126: recv() returns None on a closed and empty channel; the task ends.
NtExit ==
    /\ nt_running
    /\ ~nt_open
    /\ nt_mailbox = <<>>
    /\ nt_running' = FALSE
    /\ UNCHANGED <<init_checkpoint, nt_mailbox, nt_next_index, nt_bmap, nt_published,
                   nt_sent, nt_trace, nt_count, nt_open, ws_vars, engine_vars>>

----------------------------------------------------------------------------
(* Change engines: values. *)

\* Option<T>.
None == <<>>
Some(x) == <<x>>

\* sui_types::object::Owner.
AddressOwner(a) == [kind |-> "AddressOwner", who |-> a]
Shared == [kind |-> "Shared", who |-> "-"]
Immutable == [kind |-> "Immutable", who |-> "-"]

\* Owner::get_owner_address().ok().map(|a| a.to_string()): the address of an
\* address owner; Shared and Immutable have none.
GetOwnerAddress(owner) == IF owner.kind = "AddressOwner" THEN Some(owner.who) ELSE None

\* GAS::type_tag(): the coin type of the gas coin, and the tag the extended balance
\* engine marks its gas record with.
GAS == "SUI"
GasSentinel == "bool"

\* ObjectID::to_canonical_string(true) and ObjectID::to_string(): "0x" and the hex
\* digits of the id.
ToCanonicalString(id) == <<"0x", id>>
IdToString(id) == <<"0x", id>>

\* ObjectDigest of an object: a hash of its content.
DigestOf(kind, owner, coin_type, balance) == <<"digest", kind, owner.who, coin_type, balance>>

\* A digest that is no object's.
WrongDigest == <<"digest", "wrong", "-", "-", 0>>

\* Objects: Coin<T> with a balance, another Move object, or a package.
CoinObject(id, version, owner, coin_type, balance) ==
    [id |-> id, version |-> version, owner |-> owner, kind |-> "coin",
     coin_type |-> coin_type, balance |-> balance, modules |-> {},
     digest |-> DigestOf("coin", owner, coin_type, balance)]
MoveObject(id, version, owner) ==
    [id |-> id, version |-> version, owner |-> owner, kind |-> "move",
     coin_type |-> "-", balance |-> 0, modules |-> {},
     digest |-> DigestOf("move", owner, "-", 0)]
PackageObject(id, version, modules) ==
    [id |-> id, version |-> version, owner |-> Immutable, kind |-> "package",
     coin_type |-> "-", balance |-> 0, modules |-> modules,
     digest |-> DigestOf("package", Immutable, "-", 0)]

\* Object::type_() is Some for Move objects (coins included), None for packages.
HasType(o) == o.kind # "package"
\* MoveObjectType::is_coin().
IsCoin(o) == o.kind = "coin"

----------------------------------------------------------------------------
(* Change engines: the object provider. *)

\* A cell of the store the provider cannot read: a lookup that lands on it
\* returns Err(e).
Unreadable(e) == [kind |-> "unreadable", error |-> e]

\* ObjectProvider::get_object on a store: the object at exactly (id, version), or
\* an error.
ProviderGet(store, id, version) ==
    IF <<id, version>> \in DOMAIN store
    THEN IF store[<<id, version>>].kind = "unreadable"
         THEN [ok |-> FALSE, obj |-> None, err |-> store[<<id, version>>].error]
         ELSE [ok |-> TRUE, obj |-> store[<<id, version>>], err |-> ""]
    ELSE [ok |-> FALSE, obj |-> None, err |-> "ProviderError"]

\* ObjectProvider::find_object_lt_or_eq_version on a store: the object at the
\* greatest known version <= version, or None.
ProviderFindLe(store, id, version) ==
    LET vs == {k[2] : k \in {c \in DOMAIN store : c[1] = id /\ c[2] <= version}}
    IN IF vs = {} THEN None
       ELSE Some(store[<<id, CHOOSE v \in vs : \A w \in vs : w <= v>>])

\* The error ObjectProvider::find_object_lt_or_eq_version returns on a store, if
\* it returns one: that of the cell the lookup lands on.
ProviderFindLeErr(store, id, version) ==
    LET found == ProviderFindLe(store, id, version)
    IN IF found # None /\ found[1].kind = "unreadable" THEN Some(found[1].error) ELSE None

GetCall(id, version) == [op |-> "get_object", id |-> id, version |-> version]
FindLeCall(id, version) ==
    [op |-> "find_object_lt_or_eq_version", id |-> id, version |-> version]

\* A call that returned Err (the provider's error, by `?`) or panicked.
Failed(err, looked) == [ok |-> FALSE, err |-> err, records |-> <<>>, lookups |-> looked]
Returned(records, looked) == [ok |-> TRUE, err |-> "", records |-> records, lookups |-> looked]

----------------------------------------------------------------------------
(* balance_changes.rs: the balance-change engine. *)

\* Lines 125-155: fetch_coins, as a loop over objects[i..] with the coins pushed
\* and the provider calls made so far.
RECURSIVE FetchCoinsLoop(_, _, _, _)
FetchCoinsLoop(store, objects, coins, looked) ==
    IF objects = <<>> THEN [ok |-> TRUE, err |-> "", coins |-> coins, lookups |-> looked]
    ELSE LET e  == Head(objects)
             r  == ProviderGet(store, e.id, e.version)
             lk == Append(looked, GetCall(e.id, e.version))
         IN IF ~r.ok
            THEN [ok |-> FALSE, err |-> r.err, coins |-> <<>>, lookups |-> lk]
            ELSE IF HasType(r.obj) /\ IsCoin(r.obj)
            THEN IF e.digest # None /\ e.digest[1] # r.obj.digest
                 THEN [ok |-> FALSE, err |-> "panic", coins |-> <<>>, lookups |-> lk]
                 ELSE FetchCoinsLoop(store, Tail(objects),
                          Append(coins, [owner |-> r.obj.owner,
                                         coin_type |-> r.obj.coin_type,
                                         object_id |-> r.obj.id,
                                         amount |-> r.obj.balance]),
                          lk)
            ELSE FetchCoinsLoop(store, Tail(objects), coins, lk)

\* fetch_coins: (owner, coin type, balance) of every coin among objects.
fetch_coins(store, objects) == FetchCoinsLoop(store, objects, <<>>, <<>>)

\* custom_fetch_coins (lines 313-344): the same, with the object id.
custom_fetch_coins(store, objects) == FetchCoinsLoop(store, objects, <<>>, <<>>)

\* Lines 94-100 and 105-108: the fold *acc.entry(key).or_default() += sign * amount.
RECURSIVE FoldCoins(_, _, _)
FoldCoins(acc, coins, sign) ==
    IF coins = <<>> THEN acc
    ELSE LET c == Head(coins)
             k == <<c.owner, c.coin_type>>
         IN FoldCoins(MapInsert(acc, k,
                          (IF k \in DOMAIN acc THEN acc[k] ELSE 0) + sign * c.amount),
                      Tail(coins), sign)

\* BTreeMap::into_iter: the keys in the map's order (the Ord of the key type, a
\* fixed total order).
RECURSIVE KeysInOrder(_)
KeysInOrder(keys) ==
    IF keys = {} THEN <<>>
    ELSE LET k == CHOOSE x \in keys : TRUE
         IN <<k>> \o KeysInOrder(keys \ {k})

\* Lines 110-122 without the `amount == 0` test (as custom_get_balance_changes
\* has it): a record for every key.
BalanceRecordsAll(balances) ==
    LET keys == KeysInOrder(DOMAIN balances)
    IN [i \in 1 .. Len(keys) |->
           [owner |-> keys[i][1], coin_type |-> keys[i][2], amount |-> balances[keys[i]]]]

\* Lines 110-122: a BalanceChange for every key whose amount is not 0.
BalanceRecords(balances) ==
    LET keys == KeysInOrder({k \in DOMAIN balances : balances[k] # 0})
    IN [i \in 1 .. Len(keys) |->
           [owner |-> keys[i][1], coin_type |-> keys[i][2], amount |-> balances[keys[i]]]]

\* Lines 85-123: get_balance_changes.
get_balance_changes(store, modified_at_version, all_mutated) ==
    LET ins == fetch_coins(store, modified_at_version)
    IN IF ~ins.ok THEN Failed(ins.err, ins.lookups)
       ELSE LET outs   == fetch_coins(store, all_mutated)
                looked == ins.lookups \o outs.lookups
            IN IF ~outs.ok THEN Failed(outs.err, looked)
               ELSE Returned(BalanceRecords(FoldCoins(FoldCoins(EmptyMap, ins.coins, -1),
                                                      outs.coins, 1)),
                             looked)

\* matches!(mocked_coin, Some(coin) if id == coin).
IsMocked(mocked_coin, id) == mocked_coin # None /\ mocked_coin[1] = id

\* AllMutatedArg without the test of lines 45-47: the mocked coin is kept.
AllMutatedArgKeepingMocked(effects, mocked_coin) ==
    [i \in 1 .. Len(effects.all_changed_objects) |->
        [id |-> effects.all_changed_objects[i].id,
         version |-> effects.all_changed_objects[i].version,
         digest |-> Some(effects.all_changed_objects[i].digest)]]

\* Lines 41-50: all_changed_objects without the mocked coin, each with its digest.
AllMutatedArg(effects, mocked_coin) ==
    LET kept == SelectSeq(effects.all_changed_objects,
                          LAMBDA c : ~IsMocked(mocked_coin, c.id))
    IN [i \in 1 .. Len(kept) |->
           [id |-> kept[i].id, version |-> kept[i].version, digest |-> Some(kept[i].digest)]]

\* Lines 52-58: the digests of the ImmOrOwnedMoveObject inputs, by id.
RECURSIVE InputObjsToDigest(_)
InputObjsToDigest(input_objs) ==
    IF input_objs = <<>> THEN EmptyMap
    ELSE LET k    == input_objs[Len(input_objs)]
             rest == InputObjsToDigest(SubSeq(input_objs, 1, Len(input_objs) - 1))
         IN IF k.kind = "ImmOrOwnedMoveObject" THEN MapInsert(rest, k.id, k.digest)
            ELSE rest

\* ModifiedArg without the test of lines 74-76: the ids of
\* unwrapped_then_deleted are kept.
ModifiedArgKeepingUnwrapped(effects, input_objs, mocked_coin) ==
    LET digests == InputObjsToDigest(input_objs)
        kept == SelectSeq(effects.modified_at_versions,
                          LAMBDA m : ~IsMocked(mocked_coin, m.id))
    IN [i \in 1 .. Len(kept) |->
           [id |-> kept[i].id, version |-> kept[i].version,
            digest |-> IF kept[i].id \in DOMAIN digests
                       THEN Some(digests[kept[i].id]) ELSE None]]

\* Lines 66-79: modified_at_versions without the mocked coin and without the ids
\* of unwrapped_then_deleted, each with the digest of its input object, if any.
ModifiedArg(effects, input_objs, mocked_coin) ==
    LET digests == InputObjsToDigest(input_objs)
        kept == SelectSeq(effects.modified_at_versions,
                          LAMBDA m : /\ ~IsMocked(mocked_coin, m.id)
                                     /\ m.id \notin effects.unwrapped_then_deleted)
    IN [i \in 1 .. Len(kept) |->
           [id |-> kept[i].id, version |-> kept[i].version,
            digest |-> IF kept[i].id \in DOMAIN digests
                       THEN Some(digests[kept[i].id]) ELSE None]]

\* Neg without the negation.
NegForgotten(n) == n

\* i64::neg of net_gas_usage.
Neg(n) == 0 - n

\* Line 33: the transaction did not succeed.
NotSuccess(effects) == effects.status # "Success"

\* Lines 24-83: get_balance_changes_from_effect.
get_balance_changes_from_effect(store, effects, input_objs, mocked_coin) ==
    IF NotSuccess(effects)
    THEN Returned(<<[owner |-> effects.gas_owner, coin_type |-> GAS,
                     amount |-> Neg(effects.net_gas_usage)]>>, <<>>)
    ELSE get_balance_changes(store, ModifiedArg(effects, input_objs, mocked_coin),
                             AllMutatedArg(effects, mocked_coin))

----------------------------------------------------------------------------
(* balance_changes.rs: the extended balance-change engine. *)

\* Lines 284-298: the fold keyed by (owner, coin type, object id).
RECURSIVE CustomFoldCoins(_, _, _)
CustomFoldCoins(acc, coins, sign) ==
    IF coins = <<>> THEN acc
    ELSE LET c == Head(coins)
             k == <<c.owner, c.coin_type, c.object_id>>
         IN CustomFoldCoins(MapInsert(acc, k,
                                (IF k \in DOMAIN acc THEN acc[k] ELSE 0) + sign * c.amount),
                            Tail(coins), sign)

\* Lines 300-310: a CustomBalanceChange for every key.
CustomBalanceRecords(balances) ==
    LET keys == KeysInOrder(DOMAIN balances)
    IN [i \in 1 .. Len(keys) |->
           [owner |-> keys[i][1], coin_type |-> keys[i][2], object_id |-> keys[i][3],
            amount |-> balances[keys[i]]]]

\* Lines 275-311: custom_get_balance_changes.
custom_get_balance_changes(store, modified_at_version, all_mutated) ==
    LET ins == custom_fetch_coins(store, modified_at_version)
    IN IF ~ins.ok THEN Failed(ins.err, ins.lookups)
       ELSE LET outs   == custom_fetch_coins(store, all_mutated)
                looked == ins.lookups \o outs.lookups
            IN IF ~outs.ok THEN Failed(outs.err, looked)
               ELSE Returned(CustomBalanceRecords(
                                 CustomFoldCoins(CustomFoldCoins(EmptyMap, ins.coins, -1),
                                                 outs.coins, 1)),
                             looked)

\* StatusOf with the output owner consulted before the input owner.
StatusOfOutputFirst(bc, status_map, input_objects_to_owner, output_objects_to_owner) ==
    IF /\ bc.object_id \in DOMAIN output_objects_to_owner
       /\ output_objects_to_owner[bc.object_id] # bc.owner
    THEN Some("Deleted")
    ELSE IF /\ bc.object_id \in DOMAIN input_objects_to_owner
            /\ input_objects_to_owner[bc.object_id] # bc.owner
    THEN Some("Created")
    ELSE IF bc.object_id \in DOMAIN status_map THEN Some(status_map[bc.object_id])
    ELSE None

\* Lines 226-261: the status of one record; None when status_map has no entry
\* (the `expect` panics).
StatusOf(bc, status_map, input_objects_to_owner, output_objects_to_owner) ==
    IF /\ bc.object_id \in DOMAIN input_objects_to_owner
       /\ input_objects_to_owner[bc.object_id] # bc.owner
    THEN Some("Created")
    ELSE IF /\ bc.object_id \in DOMAIN output_objects_to_owner
            /\ output_objects_to_owner[bc.object_id] # bc.owner
    THEN Some("Deleted")
    ELSE IF bc.object_id \in DOMAIN status_map THEN Some(status_map[bc.object_id])
    ELSE None

WithStatus(bc, status) ==
    [owner |-> bc.owner, coin_type |-> bc.coin_type, amount |-> bc.amount,
     object_id |-> ToCanonicalString(bc.object_id), status |-> status]

\* The gas record as the failure path builds it (lines 172-178).
GasRecordOfFailure(effects) ==
    [owner |-> effects.gas_owner, coin_type |-> GAS,
     amount |-> Neg(effects.net_gas_usage),
     object_id |-> ToCanonicalString(effects.gas_object_id),
     status |-> "Mutated"]

\* Lines 264-270: the synthetic gas record appended on success.
GasRecord(effects) ==
    [owner |-> effects.gas_owner, coin_type |-> GasSentinel,
     amount |-> effects.net_gas_usage,
     object_id |-> ToCanonicalString(effects.gas_object_id),
     status |-> "Mutated"]

\* Lines 159-273: get_balance_changes_with_status_from_effect.
get_balance_changes_with_status_from_effect(store, effects, input_objs, mocked_coin, status_map, input_objects_to_owner, output_objects_to_owner) ==
    IF NotSuccess(effects)
    THEN Returned(<<[owner |-> effects.gas_owner, coin_type |-> GAS,
                     amount |-> Neg(effects.net_gas_usage),
                     object_id |-> ToCanonicalString(effects.gas_object_id),
                     status |-> "Mutated"]>>, <<>>)
    ELSE LET all == custom_get_balance_changes(store,
                        ModifiedArg(effects, input_objs, mocked_coin),
                        AllMutatedArg(effects, mocked_coin))
             st(i) == StatusOf(all.records[i], status_map, input_objects_to_owner,
                               output_objects_to_owner)
         IN IF ~all.ok THEN all
            ELSE IF \E i \in 1 .. Len(all.records) : st(i) = None
            THEN Failed("panic", all.lookups)
            ELSE Returned([i \in 1 .. Len(all.records) |->
                               WithStatus(all.records[i], st(i)[1])]
                          \o <<GasRecord(effects)>>,
                          all.lookups)

----------------------------------------------------------------------------
(* object_changes.rs: the object-change engines. *)

\* StructTag of a Move object (type_.clone().into()) and its canonical string.
ObjectTypeOf(o) == <<o.kind, o.coin_type>>
TypeToCanonicalString(t) == <<"type", t>>

\* o.data.try_as_move().map(|d| d.clone().into_contents()).
MoveContents(o) == IF o.kind # "package" THEN Some(<<"contents", o.digest>>) ELSE None

\* modified_at_versions.into_iter().collect::<BTreeMap<_, _>>(): a later entry of
\* an id replaces an earlier one.
RECURSIVE ModifyAtVersion(_)
ModifyAtVersion(modified_at_versions) ==
    IF modified_at_versions = <<>> THEN EmptyMap
    ELSE LET n == Len(modified_at_versions)
         IN MapInsert(ModifyAtVersion(SubSeq(modified_at_versions, 1, n - 1)),
                      modified_at_versions[n].id, modified_at_versions[n].version)

\* SequenceNumber::default(), for unwrap_or_default().
DefaultVersion == 0

\* previous_version: modify_at_version.get(&object_id).cloned().unwrap_or_default().
PreviousVersionDefaulted(modify_at_version, id) ==
    IF id \in DOMAIN modify_at_version THEN modify_at_version[id] ELSE DefaultVersion

\* Lines 109-133: the ownership map of a snapshot, by id string: the owner's
\* address if it has one.
RECURSIVE OwnershipMap(_)
OwnershipMap(objects) ==
    IF objects = <<>> THEN EmptyMap
    ELSE LET n == Len(objects)
         IN MapInsert(OwnershipMap(SubSeq(objects, 1, n - 1)),
                      IdToString(objects[n].id), GetOwnerAddress(objects[n].owner))

\* CanonicalChanged without the test of line 57: a package is reported as
\* Published under every write kind.
CanonicalChangedPublishingAlways(sender, modify_at_version, c, o) ==
    IF HasType(o)
    THEN IF c.kind = "Mutate"
         THEN <<[tag |-> "Mutated", sender |-> sender, owner |-> c.owner,
                 object_type |-> ObjectTypeOf(o), object_id |-> c.id,
                 version |-> c.version,
                 previous_version |-> PreviousVersionDefaulted(modify_at_version, c.id),
                 digest |-> c.digest]>>
         ELSE IF c.kind = "Create"
         THEN <<[tag |-> "Created", sender |-> sender, owner |-> c.owner,
                 object_type |-> ObjectTypeOf(o), object_id |-> c.id,
                 version |-> c.version, digest |-> c.digest]>>
         ELSE <<>>
    ELSE <<[tag |-> "Published", package_id |-> o.id, version |-> o.version,
            digest |-> c.digest, modules |-> o.modules]>>

\* CanonicalChanged with the `_ => {}` arm of line 54 reporting as the Create arm
\* does: an unwrapped Move object is reported as Created.
CanonicalChangedUnwrapCreated(sender, modify_at_version, c, o) ==
    IF HasType(o)
    THEN IF c.kind = "Mutate"
         THEN <<[tag |-> "Mutated", sender |-> sender, owner |-> c.owner,
                 object_type |-> ObjectTypeOf(o), object_id |-> c.id,
                 version |-> c.version,
                 previous_version |-> PreviousVersionDefaulted(modify_at_version, c.id),
                 digest |-> c.digest]>>
         ELSE <<[tag |-> "Created", sender |-> sender, owner |-> c.owner,
                 object_type |-> ObjectTypeOf(o), object_id |-> c.id,
                 version |-> c.version, digest |-> c.digest]>>
    ELSE IF c.kind = "Create"
         THEN <<[tag |-> "Published", package_id |-> o.id, version |-> o.version,
                 digest |-> c.digest, modules |-> o.modules]>>
         ELSE <<>>

\* Lines 29-65 (and 139-166, 234-241, 326-335): the canonical records of one
\* changed object c, fetched as o.
CanonicalChanged(sender, modify_at_version, c, o) ==
    IF HasType(o)
    THEN IF c.kind = "Mutate"
         THEN <<[tag |-> "Mutated", sender |-> sender, owner |-> c.owner,
                 object_type |-> ObjectTypeOf(o), object_id |-> c.id,
                 version |-> c.version,
                 previous_version |-> PreviousVersionDefaulted(modify_at_version, c.id),
                 digest |-> c.digest]>>
         ELSE IF c.kind = "Create"
         THEN <<[tag |-> "Created", sender |-> sender, owner |-> c.owner,
                 object_type |-> ObjectTypeOf(o), object_id |-> c.id,
                 version |-> c.version, digest |-> c.digest]>>
         ELSE <<>>
    ELSE IF c.kind = "Create"
         THEN <<[tag |-> "Published", package_id |-> o.id, version |-> o.version,
                 digest |-> c.digest, modules |-> o.modules]>>
         ELSE <<>>

\* A removed-object branch that reports every removal as Deleted.
CanonicalRemovedAsDeleted(sender, r, found) ==
    IF found # None /\ HasType(found[1])
    THEN <<[tag |-> "Deleted",
            sender |-> sender, object_type |-> ObjectTypeOf(found[1]),
            object_id |-> r.id, version |-> r.version]>>
    ELSE <<>>

\* Lines 72-90 (and 342-358): the canonical records of one removed object r, for
\* which the provider found found (an Option<Object>).
CanonicalRemoved(sender, r, found) ==
    IF found # None /\ HasType(found[1])
    THEN <<[tag |-> IF r.kind = "Delete" THEN "Deleted" ELSE "Wrapped",
            sender |-> sender, object_type |-> ObjectTypeOf(found[1]),
            object_id |-> r.id, version |-> r.version]>>
    ELSE <<>>

\* Lines 27-66: the loop over all_changed_objects.
RECURSIVE ChangedLoop(_, _, _, _, _, _)
ChangedLoop(store, sender, modify_at_version, changed, records, looked) ==
    IF changed = <<>> THEN Returned(records, looked)
    ELSE LET c  == Head(changed)
             r  == ProviderGet(store, c.id, c.version)
             lk == Append(looked, GetCall(c.id, c.version))
         IN IF ~r.ok THEN Failed(r.err, lk)
            ELSE ChangedLoop(store, sender, modify_at_version, Tail(changed),
                             records \o CanonicalChanged(sender, modify_at_version, c, r.obj),
                             lk)

\* Lines 68-91: the loop over all_removed_objects.
RECURSIVE RemovedLoop(_, _, _, _, _)
RemovedLoop(store, sender, removed, records, looked) ==
    IF removed = <<>> THEN Returned(records, looked)
    ELSE LET r   == Head(removed)
             err == ProviderFindLeErr(store, r.id, r.version)
             lk  == Append(looked, FindLeCall(r.id, r.version))
         IN IF err # None THEN Failed(err[1], lk)
            ELSE RemovedLoop(store, sender, Tail(removed),
                             records \o CanonicalRemoved(sender, r,
                                            ProviderFindLe(store, r.id, r.version)),
                             lk)

\* Lines 16-94: get_object_changes.
get_object_changes(store, sender, modified_at_versions, all_changed_objects, all_removed_objects) ==
    LET first == ChangedLoop(store, sender, ModifyAtVersion(modified_at_versions),
                             all_changed_objects, <<>>, <<>>)
    IN IF ~first.ok THEN first
       ELSE RemovedLoop(store, sender, all_removed_objects, first.records, first.lookups)

\* odin::sui_ws::ObjectUpdateStatus.
Status(tag) == [tag |-> tag]
Received(old_owner, new_owner) ==
    [tag |-> "Received", sender_address |-> old_owner, receiver_address |-> new_owner]
Sent(sender_address, receiver_address) ==
    [tag |-> "Sent", sender_address |-> sender_address,
     receiver_address |-> receiver_address]

\* An entry of custom_object_changes: the routing address and the update.
Update(target, id, o, version, data, status) ==
    [target |-> target,
     object_id |-> IdToString(id),
     object_type_tag |-> Some(TypeToCanonicalString(ObjectTypeOf(o))),
     object_version |-> Some(version),
     object_bcs |-> data,
     object_metadata |-> None,
     status |-> status]

\* A Mutate branch that routes Received to the previous owner.
ExtendedMutateToOldOwner(input_ownership_map, c, o) ==
    LET address_owner == GetOwnerAddress(o.owner)
        data == MoveContents(o)
        key  == IdToString(c.id)
    IN IF key \notin DOMAIN input_ownership_map THEN <<>>
       ELSE LET object_owner == input_ownership_map[key]
            IN IF object_owner # None /\ address_owner # None
               THEN IF object_owner[1] # address_owner[1]
                    THEN <<Update(Some(object_owner[1]), c.id, o, c.version, data,
                                  Received(object_owner[1], address_owner[1]))>>
                    ELSE <<>>
               ELSE IF address_owner = None
               THEN <<Update(None, c.id, o, c.version, data, Status("Mutated"))>>
               ELSE <<Update(Some(address_owner[1]), c.id, o, c.version, data,
                             Status("Mutated"))>>

\* Lines 168-231: the extended records of a Move object c written with Mutate.
ExtendedMutate(input_ownership_map, c, o) ==
    LET address_owner == GetOwnerAddress(o.owner)
        data == MoveContents(o)
        key  == IdToString(c.id)
    IN IF key \notin DOMAIN input_ownership_map THEN <<>>
       ELSE LET object_owner == input_ownership_map[key]
            IN IF object_owner # None /\ address_owner # None
               THEN IF object_owner[1] # address_owner[1]
                    THEN <<Update(Some(address_owner[1]), c.id, o, c.version, data,
                                  Received(object_owner[1], address_owner[1]))>>
                    ELSE <<>>
               ELSE IF address_owner = None
               THEN <<Update(None, c.id, o, c.version, data, Status("Mutated"))>>
               ELSE <<Update(Some(address_owner[1]), c.id, o, c.version, data,
                             Status("Mutated"))>>

\* Lines 243-322: the extended records of a Move object c written with Create.
ExtendedCreate(input_ownership_map, c, o) ==
    LET address_owner == GetOwnerAddress(o.owner)
        data == MoveContents(o)
        key  == IdToString(c.id)
        object_existed == IF key \in DOMAIN input_ownership_map
                          THEN Some(input_ownership_map[key]) ELSE None
    IN IF object_existed # None /\ address_owner # None
       THEN IF object_existed[1] # None
            THEN IF object_existed[1][1] # address_owner[1]
                 THEN <<Update(Some(address_owner[1]), c.id, o, c.version, data,
                               Received(object_existed[1][1], address_owner[1]))>>
                 ELSE <<>>
            ELSE <<Update(Some(address_owner[1]), c.id, o, c.version, data,
                          Status("Mutated"))>>
       ELSE IF address_owner = None
       THEN <<Update(None, c.id, o, c.version, data, Status("Created"))>>
       ELSE <<Update(Some(address_owner[1]), c.id, o, c.version, data,
                     Status("Created"))>>

\* Lines 139-336: the extended records of one changed object c, fetched as o.
ExtendedChanged(input_ownership_map, c, o) ==
    IF ~HasType(o) THEN <<>>
    ELSE IF c.kind = "Mutate" THEN ExtendedMutate(input_ownership_map, c, o)
    ELSE IF c.kind = "Create" THEN ExtendedCreate(input_ownership_map, c, o)
    ELSE <<>>

\* ExtendedRemoved with the plain deletion (lines 417-430) routed to the owner
\* the input objects give, not to the owner of the object found.
ExtendedRemovedToInputOwner(input_ownership_map, output_ownership_map, r, found) ==
    IF found = None \/ ~HasType(found[1]) \/ MoveContents(found[1]) = None THEN <<>>
    ELSE LET o == found[1]
             data == MoveContents(o)
             key == IdToString(r.id)
         IN IF key \in DOMAIN output_ownership_map
            THEN IF key \notin DOMAIN input_ownership_map THEN <<>>
                 ELSE LET new_owner == output_ownership_map[key]
                          old_owner == input_ownership_map[key]
                      IN IF new_owner # None
                         THEN <<Update(old_owner, r.id, o, r.version, data,
                                       Sent(new_owner[1], new_owner[1]))>>
                         ELSE <<Update(old_owner, r.id, o, r.version, data,
                                       Status("Deleted"))>>
            ELSE <<Update(IF key \in DOMAIN input_ownership_map
                          THEN input_ownership_map[key] ELSE None,
                          r.id, o, r.version, data, Status("Deleted"))>>

\* ExtendedRemoved without the `continue` of lines 375-383: a removed object that
\* is among the output objects and not among the input objects is reported as
\* simply deleted.
ExtendedRemovedMissingAsDeleted(input_ownership_map, output_ownership_map, r, found) ==
    IF found = None \/ ~HasType(found[1]) \/ MoveContents(found[1]) = None THEN <<>>
    ELSE LET o == found[1]
             data == MoveContents(o)
             address_owner == GetOwnerAddress(o.owner)
             key == IdToString(r.id)
         IN IF key \in DOMAIN output_ownership_map /\ key \in DOMAIN input_ownership_map
            THEN LET new_owner == output_ownership_map[key]
                     old_owner == input_ownership_map[key]
                 IN IF new_owner # None
                    THEN <<Update(old_owner, r.id, o, r.version, data,
                                  Sent(new_owner[1], new_owner[1]))>>
                    ELSE <<Update(old_owner, r.id, o, r.version, data,
                                  Status("Deleted"))>>
            ELSE <<Update(address_owner, r.id, o, r.version, data, Status("Deleted"))>>

\* Lines 360-431: the extended records of one removed object r, for which the
\* provider found found.
ExtendedRemoved(input_ownership_map, output_ownership_map, r, found) ==
    IF found = None \/ ~HasType(found[1]) \/ MoveContents(found[1]) = None THEN <<>>
    ELSE LET o == found[1]
             data == MoveContents(o)
             address_owner == GetOwnerAddress(o.owner)
             key == IdToString(r.id)
         IN IF key \in DOMAIN output_ownership_map
            THEN IF key \notin DOMAIN input_ownership_map THEN <<>>
                 ELSE LET new_owner == output_ownership_map[key]
                          old_owner == input_ownership_map[key]
                      IN IF new_owner # None
                         THEN <<Update(old_owner, r.id, o, r.version, data,
                                       Sent(new_owner[1], new_owner[1]))>>
                         ELSE <<Update(old_owner, r.id, o, r.version, data,
                                       Status("Deleted"))>>
            ELSE <<Update(address_owner, r.id, o, r.version, data, Status("Deleted"))>>

CustomFailed(err, looked) ==
    [ok |-> FALSE, err |-> err, records |-> <<>>, custom |-> <<>>, lookups |-> looked]
CustomReturned(records, custom, looked) ==
    [ok |-> TRUE, err |-> "", records |-> records, custom |-> custom, lookups |-> looked]

\* Lines 137-336: the loop over all_changed_objects.
RECURSIVE CustomChangedLoop(_, _, _, _, _, _, _, _)
CustomChangedLoop(store, sender, modify_at_version, input_ownership_map, changed, records, custom, looked) ==
    IF changed = <<>> THEN CustomReturned(records, custom, looked)
    ELSE LET c  == Head(changed)
             r  == ProviderGet(store, c.id, c.version)
             lk == Append(looked, GetCall(c.id, c.version))
         IN IF ~r.ok THEN CustomFailed(r.err, lk)
            ELSE CustomChangedLoop(store, sender, modify_at_version, input_ownership_map,
                     Tail(changed),
                     records \o CanonicalChanged(sender, modify_at_version, c, r.obj),
                     custom \o ExtendedChanged(input_ownership_map, c, r.obj),
                     lk)

\* CustomRemovedLoop with `.await.ok().flatten()` for `.await?` at lines 339-341:
\* an error of the provider is taken as "nothing found" and the loop goes on.
RECURSIVE CustomRemovedLoopErrAsNone(_, _, _, _, _, _, _, _)
CustomRemovedLoopErrAsNone(store, sender, input_ownership_map, output_ownership_map, removed, records, custom, looked) ==
    IF removed = <<>> THEN CustomReturned(records, custom, looked)
    ELSE LET r     == Head(removed)
             err   == ProviderFindLeErr(store, r.id, r.version)
             found == IF err # None THEN None ELSE ProviderFindLe(store, r.id, r.version)
         IN CustomRemovedLoopErrAsNone(store, sender, input_ownership_map,
                output_ownership_map, Tail(removed),
                records \o CanonicalRemoved(sender, r, found),
                custom \o ExtendedRemoved(input_ownership_map, output_ownership_map, r, found),
                Append(looked, FindLeCall(r.id, r.version)))

\* Lines 338-434: the loop over all_removed_objects.
RECURSIVE CustomRemovedLoop(_, _, _, _, _, _, _, _)
CustomRemovedLoop(store, sender, input_ownership_map, output_ownership_map, removed, records, custom, looked) ==
    IF removed = <<>> THEN CustomReturned(records, custom, looked)
    ELSE LET r     == Head(removed)
             err   == ProviderFindLeErr(store, r.id, r.version)
             found == ProviderFindLe(store, r.id, r.version)
             lk    == Append(looked, FindLeCall(r.id, r.version))
         IN IF err # None THEN CustomFailed(err[1], lk)
            ELSE CustomRemovedLoop(store, sender, input_ownership_map, output_ownership_map,
                     Tail(removed),
                     records \o CanonicalRemoved(sender, r, found),
                     custom \o ExtendedRemoved(input_ownership_map, output_ownership_map,
                                               r, found),
                     lk)

\* Lines 96-437: custom_get_object_changes.
custom_get_object_changes(store, sender, modified_at_versions, all_changed_objects, all_removed_objects, input_objects, output_objects) ==
    LET input_ownership_map == OwnershipMap(input_objects)
        output_ownership_map == OwnershipMap(output_objects)
        first == CustomChangedLoop(store, sender, ModifyAtVersion(modified_at_versions),
                                   input_ownership_map, all_changed_objects,
                                   <<>>, <<>>, <<>>)
    IN IF ~first.ok THEN first
       ELSE CustomRemovedLoop(store, sender, input_ownership_map, output_ownership_map,
                              all_removed_objects, first.records, first.custom,
                              first.lookups)

----------------------------------------------------------------------------
(* balance_changes.rs: ObjectProviderCache. *)

\* A cache: the two maps behind the RwLocks.
CacheOf(exact, resolved) == [object_cache |-> exact, last_version_cache |-> resolved]

\* What a call on the cache leaves and returns: the cache after it, Ok(obj) or
\* Err(err), and the calls made on the wrapped provider.
CacheOk(cache, obj, looked) ==
    [cache |-> cache, ok |-> TRUE, err |-> "", obj |-> obj, lookups |-> looked]
CacheErr(cache, err, looked) ==
    [cache |-> cache, ok |-> FALSE, err |-> err, obj |-> None, lookups |-> looked]

\* Lines 376-404: new_with_cache, over the written objects in key order: each
\* is a record [id, version (object_ref.1), object].
RECURSIVE NewWithCacheLoop(_, _)
NewWithCacheLoop(written, cache) ==
    IF written = <<>> THEN cache
    ELSE LET w   == Head(written)
             key == <<w.id, w.version>>
             existing == IF key \in DOMAIN cache.last_version_cache
                         THEN Some(cache.last_version_cache[key]) ELSE None
             resolved ==
                 IF existing # None
                 THEN IF w.version > existing[1]
                      THEN MapInsert(cache.last_version_cache, key, w.version)
                      ELSE cache.last_version_cache
                 ELSE MapInsert(cache.last_version_cache, key, w.version)
         IN NewWithCacheLoop(Tail(written),
                CacheOf(MapInsert(cache.object_cache, key, w.object), resolved))

new_with_cache(written_objects) ==
    NewWithCacheLoop(written_objects, CacheOf(EmptyMap, EmptyMap))

\* get_object without lines 424-427: the fetched object is not kept.
cache_get_object_not_kept(cache, store, fails, id, version) ==
    IF <<id, version>> \in DOMAIN cache.object_cache
    THEN CacheOk(cache, Some(cache.object_cache[<<id, version>>]), <<>>)
    ELSE LET r  == ProviderGet(store, id, version)
             lk == <<GetCall(id, version)>>
         IN IF fails THEN CacheErr(cache, "ProviderError", lk)
            ELSE IF ~r.ok THEN CacheErr(cache, "NotFound", lk)
            ELSE CacheOk(cache, Some(r.obj), lk)

\* Lines 415-429: ObjectProviderCache::get_object. fails: the wrapped provider
\* answers its call, if one is made, with an error of its own.
cache_get_object(cache, store, fails, id, version) ==
    IF <<id, version>> \in DOMAIN cache.object_cache
    THEN CacheOk(cache, Some(cache.object_cache[<<id, version>>]), <<>>)
    ELSE LET r  == ProviderGet(store, id, version)
             lk == <<GetCall(id, version)>>
         IN IF fails THEN CacheErr(cache, "ProviderError", lk)
            ELSE IF ~r.ok THEN CacheErr(cache, "NotFound", lk)
            ELSE CacheOk(CacheOf(MapInsert(cache.object_cache, <<id, version>>, r.obj),
                                 cache.last_version_cache),
                         Some(r.obj), lk)

\* find_object_lt_or_eq_version with the resolved version memoized under the
\* resolved version instead of the queried one.
cache_find_le_keyed_by_resolved(cache, store, fails, id, version) ==
    IF <<id, version>> \in DOMAIN cache.last_version_cache
    THEN LET g == cache_get_object(cache, store, fails, id,
                                   cache.last_version_cache[<<id, version>>])
         IN CacheOk(g.cache, IF g.ok THEN g.obj ELSE None, g.lookups)
    ELSE LET lk == <<FindLeCall(id, version)>>
         IN IF fails THEN CacheErr(cache, "ProviderError", lk)
            ELSE LET found == ProviderFindLe(store, id, version)
                 IN IF found # None
                    THEN CacheOk(CacheOf(MapInsert(cache.object_cache,
                                                   <<id, found[1].version>>, found[1]),
                                         MapInsert(cache.last_version_cache,
                                                   <<id, found[1].version>>,
                                                   found[1].version)),
                                 found, lk)
                    ELSE CacheOk(cache, None, lk)

\* find_object_lt_or_eq_version with the resolved-le map read by id alone: the
\* greatest version resolved for the id answers every query about it.
cache_find_le_by_id(cache, store, fails, id, version) ==
    LET keys == {k \in DOMAIN cache.last_version_cache : k[1] = id}
    IN IF keys # {}
       THEN LET k == CHOOSE x \in keys : \A y \in keys : x[2] >= y[2]
                g == cache_get_object(cache, store, fails, id, cache.last_version_cache[k])
            IN CacheOk(g.cache, IF g.ok THEN g.obj ELSE None, g.lookups)
       ELSE LET lk == <<FindLeCall(id, version)>>
            IN IF fails THEN CacheErr(cache, "ProviderError", lk)
               ELSE LET found == ProviderFindLe(store, id, version)
                    IN IF found # None
                       THEN CacheOk(CacheOf(MapInsert(cache.object_cache,
                                                      <<id, found[1].version>>, found[1]),
                                            MapInsert(cache.last_version_cache,
                                                      <<id, version>>, found[1].version)),
                                    found, lk)
                       ELSE CacheOk(cache, None, lk)

\* find_object_lt_or_eq_version without lines 436-438: the resolved-le map is
\* written but never read, every query goes to the wrapped provider.
cache_find_le_unmemoized(cache, store, fails, id, version) ==
    LET lk == <<FindLeCall(id, version)>>
    IN IF fails THEN CacheErr(cache, "ProviderError", lk)
       ELSE LET found == ProviderFindLe(store, id, version)
            IN IF found # None
               THEN CacheOk(CacheOf(MapInsert(cache.object_cache,
                                              <<id, found[1].version>>, found[1]),
                                    MapInsert(cache.last_version_cache,
                                              <<id, version>>, found[1].version)),
                            found, lk)
               ELSE CacheOk(cache, None, lk)

\* find_object_lt_or_eq_version without lines 444-447: the resolved version is
\* memoized, the object found is not kept in object_cache.
cache_find_le_exact_not_kept(cache, store, fails, id, version) ==
    IF <<id, version>> \in DOMAIN cache.last_version_cache
    THEN LET g == cache_get_object(cache, store, fails, id,
                                   cache.last_version_cache[<<id, version>>])
         IN CacheOk(g.cache, IF g.ok THEN g.obj ELSE None, g.lookups)
    ELSE LET lk == <<FindLeCall(id, version)>>
         IN IF fails THEN CacheErr(cache, "ProviderError", lk)
            ELSE LET found == ProviderFindLe(store, id, version)
                 IN IF found # None
                    THEN CacheOk(CacheOf(cache.object_cache,
                                         MapInsert(cache.last_version_cache,
                                                   <<id, version>>, found[1].version)),
                                 found, lk)
                    ELSE CacheOk(cache, None, lk)

\* Lines 431-456: ObjectProviderCache::find_object_lt_or_eq_version. On a hit
\* (436-438) the result is self.get_object(id, version).await.ok().
cache_find_object_lt_or_eq_version(cache, store, fails, id, version) ==
    IF <<id, version>> \in DOMAIN cache.last_version_cache
    THEN LET g == cache_get_object(cache, store, fails, id,
                                   cache.last_version_cache[<<id, version>>])
         IN CacheOk(g.cache, IF g.ok THEN g.obj ELSE None, g.lookups)
    ELSE LET lk == <<FindLeCall(id, version)>>
         IN IF fails THEN CacheErr(cache, "ProviderError", lk)
            ELSE LET found == ProviderFindLe(store, id, version)
                 IN IF found # None
                    THEN CacheOk(CacheOf(MapInsert(cache.object_cache,
                                                   <<id, found[1].version>>, found[1]),
                                         MapInsert(cache.last_version_cache,
                                                   <<id, version>>, found[1].version)),
                                 found, lk)
                    ELSE CacheOk(cache, None, lk)

----------------------------------------------------------------------------
(* Initial states. *)

\* The two tasks as run() starts them.
QueueStart ==
    /\ ws_mailbox = <<>>
    /\ ws_next_index = init_checkpoint
    /\ ws_bmap = EmptyMap
    /\ ws_published = <<>>
    /\ ws_sent = <<>>
    /\ ws_trace = <<>>
    /\ ws_count = 0
    /\ ws_open = TRUE
    /\ ws_running = TRUE
    /\ nt_mailbox = <<>>
    /\ nt_next_index = init_checkpoint
    /\ nt_bmap = EmptyMap
    /\ nt_published = <<>>
    /\ nt_sent = <<>>
    /\ nt_trace = <<>>
    /\ nt_count = 0
    /\ nt_open = TRUE
    /\ nt_running = TRUE

\* nats_queue() sets init_checkpoint to u64::MAX; the field is public and the
\* caller may preset it before run().
QueueInit ==
    /\ init_checkpoint \in {U64_MAX} \cup (0 .. MaxInit)
    /\ QueueStart

\* The publisher when only an engine is exercised.
QueueIdle ==
    /\ init_checkpoint = U64_MAX
    /\ QueueStart

\* Lines 368-374: ObjectProviderCache::new.
CacheNew ==
    /\ object_cache = EmptyMap
    /\ last_version_cache = EmptyMap

NoCall == [fn |-> "none"]
NoResult == [ok |-> FALSE, err |-> "none", records |-> <<>>]

EngineIdle ==
    /\ provider = EmptyMap
    /\ tx = EmptyMap
    /\ call = NoCall
    /\ result = NoResult
    /\ lookups = <<>>
    /\ CacheNew

\* The websocket channel of the ordered publisher.
Init == QueueInit /\ EngineIdle
WsNext == (\E s \in Seqs : WsSend(s)) \/ WsRecv \/ WsClose \/ WsExit
Spec == Init /\ [][WsNext]_vars

\* The ws channel with the consumer task scheduled fairly: a task spawned on the
\* runtime that is ready to run (a batch queued, or the channel closed) is
\* eventually polled.
SpecLive == Spec /\ WF_vars(WsRecv) /\ WF_vars(WsExit)

\* The notifications channel of the ordered publisher.
NtNext == (\E s \in Seqs : NtSend(s)) \/ NtRecv \/ NtClose \/ NtExit
SpecNotifications == Init /\ [][NtNext]_vars

\* The notifications channel with the consumer task scheduled fairly.
SpecNotificationsLive == SpecNotifications /\ WF_vars(NtRecv) /\ WF_vars(NtExit)

\* Lines 78 and 92 in a build with overflow checks: `next_index + 1` panics when
\* next_index is u64::MAX.  The iteration has published the batch received and
\* the buffered batches up to u64::MAX; the task ends there.
WsPanic ==
    /\ ws_running
    /\ ws_mailbox # <<>>
    /\ LET b        == Head(ws_mailbox)
           expected == WsExpected(ws_next_index, b.seq)
           upto     == [k \in {x \in DOMAIN ws_bmap : x > expected} |-> ws_bmap[k]]
           st       == WsStep([WsState EXCEPT !.bmap = upto], b)
       IN /\ WsInOrder(b.seq, expected)
          /\ st.next_index <= expected
          /\ ws_next_index' = U64_MAX
          /\ ws_bmap' = [k \in DOMAIN ws_bmap \ DOMAIN upto |-> ws_bmap[k]]
          /\ ws_published' = st.published
          /\ ws_sent' = st.sent
          /\ ws_trace' = Append(ws_trace,
                 [seq |-> b.seq, msgs |-> b.msgs, expected |-> expected,
                  next_after |-> U64_MAX, open |-> ws_open])
    /\ ws_mailbox' = Tail(ws_mailbox)
    /\ ws_running' = FALSE
    /\ UNCHANGED <<init_checkpoint, ws_count, ws_open, nt_vars, engine_vars>>

\* The websocket channel fed with the sequence numbers at the top of u64
\* (u64::MAX and the two below it), in a build that wraps on overflow (WsRecv)
\* or panics on it (WsPanic).
WideNext ==
    \/ \E s \in (U64_MAX - 2) .. U64_MAX : WsSend(s)
    \/ WsRecv
    \/ WsPanic
    \/ WsClose
    \/ WsExit
SpecWide == Init /\ [][WideNext]_vars

----------------------------------------------------------------------------
(* The balance-change engines on one transaction. *)

\* Coin balances are 1..MaxBalance.
MaxBalance == 2
\* net_gas_usage is one of -MaxGas..MaxGas.
MaxGas == 1

\* The objects the transaction touches; each has a prior version and a new one.
BalanceIds == {1, 2}
PriorVersion == 1
NewVersion == 2

\* What an object of the transaction can be at one of its versions.
BalanceTemplates ==
    {[owner |-> AddressOwner("A"), kind |-> "coin", coin_type |-> "SUI", balance |-> b] :
        b \in 1 .. MaxBalance}
    \cup {[owner |-> AddressOwner("B"), kind |-> "coin", coin_type |-> "SUI", balance |-> 1],
          [owner |-> AddressOwner("A"), kind |-> "coin", coin_type |-> "USD", balance |-> 1],
          [owner |-> Shared, kind |-> "coin", coin_type |-> "SUI", balance |-> 1],
          [owner |-> AddressOwner("A"), kind |-> "move", coin_type |-> "-", balance |-> 0]}

Absent == [kind |-> "absent"]

FromTemplate(id, version, t) ==
    IF t.kind = "coin" THEN CoinObject(id, version, t.owner, t.coin_type, t.balance)
    ELSE MoveObject(id, version, t.owner)

\* The ids of a set, as a sequence in ascending order.
RECURSIVE IdsInOrder(_)
IdsInOrder(ids) ==
    IF ids = {} THEN <<>>
    ELSE LET m == CHOOSE x \in ids : \A y \in ids : x <= y
         IN <<m>> \o IdsInOrder(ids \ {m})

\* The store and the effects of a transaction whose object id has content
\* prior[id] before it (Absent: created by it) and new[id] after it (Absent:
\* removed by it).
StoreOf(prior, new) ==
    [c \in {<<id, PriorVersion>> : id \in {i \in DOMAIN prior : prior[i] # Absent}}
           \cup {<<id, NewVersion>> : id \in {i \in DOMAIN new : new[i] # Absent}} |->
        FromTemplate(c[1], c[2], IF c[2] = PriorVersion THEN prior[c[1]] ELSE new[c[1]])]

AllChangedObjectsOf(prior, new) ==
    LET ids == IdsInOrder({i \in DOMAIN new : new[i] # Absent})
    IN [k \in 1 .. Len(ids) |->
           LET o == FromTemplate(ids[k], NewVersion, new[ids[k]])
           IN [id |-> o.id, version |-> o.version, digest |-> o.digest, owner |-> o.owner,
               kind |-> IF prior[ids[k]] = Absent THEN "Create" ELSE "Mutate"]]

\* The input object kinds and the unwrapped-then-deleted set that go with them:
\* none; every prior object an ImmOrOwnedMoveObject with its digest, and object 2
\* unwrapped then deleted; object 1 with a digest that is not its object's, among
\* a package and a shared object.
ImmOrOwned(id, version, digest) ==
    [kind |-> "ImmOrOwnedMoveObject", id |-> id, version |-> version, digest |-> digest]
InputScenarios(prior) ==
    {[input_objs |-> <<>>, unwrapped_then_deleted |-> {}],
     [input_objs |-> LET ids == IdsInOrder({i \in DOMAIN prior : prior[i] # Absent})
                     IN [k \in 1 .. Len(ids) |->
                            ImmOrOwned(ids[k], PriorVersion,
                                FromTemplate(ids[k], PriorVersion, prior[ids[k]]).digest)],
      unwrapped_then_deleted |-> {2}],
     [input_objs |-> <<[kind |-> "MovePackage", id |-> 9, version |-> 1, digest |-> WrongDigest],
                       ImmOrOwned(1, PriorVersion, WrongDigest),
                       [kind |-> "SharedMoveObject", id |-> 8, version |-> 1, digest |-> WrongDigest]>>,
      unwrapped_then_deleted |-> {}]}

\* The effects and input object kinds of the transaction.
BalanceTxOf(prior, new, status, g, sc) ==
    [status |-> status,
     gas_object_id |-> 1,
     gas_owner |-> AddressOwner("A"),
     net_gas_usage |-> g,
     modified_at_versions |->
         LET ids == IdsInOrder({i \in DOMAIN prior : prior[i] # Absent})
         IN [k \in 1 .. Len(ids) |-> [id |-> ids[k], version |-> PriorVersion]],
     all_changed_objects |-> AllChangedObjectsOf(prior, new),
     unwrapped_then_deleted |-> sc.unwrapped_then_deleted,
     input_objs |-> sc.input_objs]

BalanceInit ==
    /\ QueueIdle
    /\ CacheNew
    /\ call = NoCall
    /\ result = NoResult
    /\ lookups = <<>>
    /\ \E prior \in [BalanceIds -> BalanceTemplates \cup {Absent}],
          new \in [BalanceIds -> BalanceTemplates \cup {Absent}] :
          /\ provider = StoreOf(prior, new)
          /\ \E status \in {"Success", "Failure"}, g \in (0 - MaxGas) .. MaxGas,
                sc \in InputScenarios(prior) :
                tx = BalanceTxOf(prior, new, status, g, sc)

\* The mocked_coin arguments of a call.
MockedCoins == {None, Some(1)}

\* The status and owner maps of a call of the extended engine: all empty, or every
\* object Mutated, owned by A before and by B after.
OwnerMaps ==
    {[status_map |-> EmptyMap, input_objects_to_owner |-> EmptyMap,
      output_objects_to_owner |-> EmptyMap],
     [status_map |-> [i \in BalanceIds |-> "Mutated"],
      input_objects_to_owner |-> [i \in BalanceIds |-> AddressOwner("A")],
      output_objects_to_owner |-> [i \in BalanceIds |-> AddressOwner("B")]]}

\* The lists a call passes on to (custom_)get_balance_changes; none on the
\* failure path, which returns before they are built.
InnerArgs(mocked_coin) ==
    IF NotSuccess(tx) THEN [modified_at_version |-> <<>>, all_mutated |-> <<>>]
    ELSE [modified_at_version |-> ModifiedArg(tx, tx.input_objs, mocked_coin),
          all_mutated |-> AllMutatedArg(tx, mocked_coin)]

\* A call of get_balance_changes_from_effect on the transaction.
CallGetBalanceChanges(mocked_coin) ==
    /\ call.fn = "none"
    /\ LET r == get_balance_changes_from_effect(provider, tx, tx.input_objs, mocked_coin)
       IN /\ call' = [fn |-> "get_balance_changes_from_effect",
                      mocked_coin |-> mocked_coin, maps |-> None,
                      inner |-> InnerArgs(mocked_coin)]
          /\ result' = [ok |-> r.ok, err |-> r.err, records |-> r.records]
          /\ lookups' = r.lookups
    /\ UNCHANGED <<queue_vars, cache_vars, provider, tx>>

\* A call of get_balance_changes_with_status_from_effect on the transaction.
CallGetBalanceChangesWithStatus(mocked_coin, maps) ==
    /\ call.fn = "none"
    /\ LET r == get_balance_changes_with_status_from_effect(provider, tx, tx.input_objs,
                    mocked_coin, maps.status_map, maps.input_objects_to_owner,
                    maps.output_objects_to_owner)
       IN /\ call' = [fn |-> "get_balance_changes_with_status_from_effect",
                      mocked_coin |-> mocked_coin, maps |-> Some(maps),
                      inner |-> InnerArgs(mocked_coin)]
          /\ result' = [ok |-> r.ok, err |-> r.err, records |-> r.records]
          /\ lookups' = r.lookups
    /\ UNCHANGED <<queue_vars, cache_vars, provider, tx>>

BalanceNext ==
    \/ \E m \in MockedCoins : CallGetBalanceChanges(m)
    \/ \E m \in MockedCoins, maps \in OwnerMaps : CallGetBalanceChangesWithStatus(m, maps)
SpecBalance == BalanceInit /\ [][BalanceNext]_vars

----------------------------------------------------------------------------
(* The extended balance-change engine under every status and owner map. *)

\* A map over the ids of the transaction with the same value for each, or the
\* empty map for None.
UniformMap(v) == IF v = None THEN EmptyMap ELSE [i \in BalanceIds |-> v[1]]

\* status_map, input_objects_to_owner and output_objects_to_owner of a call.
StatusMaps ==
    {[status_map |-> UniformMap(st), input_objects_to_owner |-> UniformMap(i),
      output_objects_to_owner |-> UniformMap(o)] :
        st \in {None, Some("Mutated"), Some("Deleted")},
        i \in {None, Some(AddressOwner("A")), Some(AddressOwner("B"))},
        o \in {None, Some(AddressOwner("A")), Some(AddressOwner("B"))}}

\* A successful transaction without input object kinds.
StatusInit ==
    /\ BalanceInit
    /\ tx.status = "Success"
    /\ tx.net_gas_usage = 1
    /\ tx.input_objs = <<>>
    /\ tx.unwrapped_then_deleted = {}

StatusNext ==
    \E m \in MockedCoins, maps \in StatusMaps : CallGetBalanceChangesWithStatus(m, maps)
SpecBalanceStatus == StatusInit /\ [][StatusNext]_vars

----------------------------------------------------------------------------
(* The object-change engines on one transaction. *)

ObjectIds == {1, 2}

\* The part an object takes in the transaction: none; changed (written with a
\* write kind, being a package or a Move object with an owner after the
\* transaction, present or not among the input objects, listed or not in
\* modified_at_versions); removed (with a remove kind, the provider knowing an
\* earlier version of it or not, present or not among the output objects and
\* among the input objects).
OwnerChoices == {AddressOwner("A"), AddressOwner("B"), Shared}
ChangedRoles ==
    [role : {"changed"}, kind : {"Mutate", "Create", "Unwrap"}, what : {"move"},
     post : OwnerChoices, pre : OwnerChoices \cup {Absent}, listed : BOOLEAN]
    \cup [role : {"changed"}, kind : {"Mutate", "Create", "Unwrap"}, what : {"package"},
          post : {Immutable}, pre : {Absent}, listed : {FALSE}]
RemovedRoles ==
    [role : {"removed"}, kind : {"Delete", "Wrap"},
     last : {Absent, [kind |-> "move", owner |-> AddressOwner("A")],
             [kind |-> "move", owner |-> Shared],
             [kind |-> "package", owner |-> Immutable]},
     post : OwnerChoices \cup {Absent},
     pre : {AddressOwner("A"), Shared, Absent}]

Modules == {"m1", "m2"}

\* The object of id at a version, as role r has it.
ObjectOfRole(id, r) ==
    IF r.role = "changed"
    THEN IF r.what = "package" THEN PackageObject(id, NewVersion, Modules)
         ELSE MoveObject(id, NewVersion, r.post)
    ELSE IF r.last.kind = "package" THEN PackageObject(id, PriorVersion, Modules)
         ELSE MoveObject(id, PriorVersion, r.last.owner)

ObjectStoreOf(roles) ==
    [c \in {<<id, NewVersion>> : id \in {i \in DOMAIN roles : roles[i].role = "changed"}}
           \cup {<<id, PriorVersion>> :
                    id \in {i \in DOMAIN roles :
                               roles[i].role = "removed" /\ roles[i].last # Absent}} |->
        ObjectOfRole(c[1], roles[c[1]])]

\* A sequence over the ids that satisfy a test, in ascending order.
IdsWhere(roles, Test(_)) == IdsInOrder({i \in DOMAIN roles : Test(roles[i])})

ObjectTxOf(roles) ==
    LET changed == IdsWhere(roles, LAMBDA r : r.role = "changed")
        removed == IdsWhere(roles, LAMBDA r : r.role = "removed")
        listed  == IdsWhere(roles, LAMBDA r : r.role = "changed" /\ r.listed)
        inputs  == IdsWhere(roles, LAMBDA r : r.role # "none" /\ r.pre # Absent)
        outputs == IdsWhere(roles, LAMBDA r : r.role = "changed"
                                              \/ (r.role = "removed" /\ r.post # Absent))
    IN [sender |-> "sender",
        modified_at_versions |->
            [k \in 1 .. Len(listed) |-> [id |-> listed[k], version |-> PriorVersion]],
        all_changed_objects |->
            [k \in 1 .. Len(changed) |->
                LET o == ObjectOfRole(changed[k], roles[changed[k]])
                IN [id |-> o.id, version |-> o.version, digest |-> o.digest,
                    owner |-> o.owner, kind |-> roles[changed[k]].kind]],
        all_removed_objects |->
            [k \in 1 .. Len(removed) |->
                [id |-> removed[k], version |-> NewVersion,
                 kind |-> roles[removed[k]].kind]],
        input_objects |->
            [k \in 1 .. Len(inputs) |->
                MoveObject(inputs[k], PriorVersion, roles[inputs[k]].pre)],
        output_objects |->
            [k \in 1 .. Len(outputs) |->
                IF roles[outputs[k]].role = "changed"
                THEN ObjectOfRole(outputs[k], roles[outputs[k]])
                ELSE MoveObject(outputs[k], NewVersion, roles[outputs[k]].post)]]

ObjectInit ==
    /\ QueueIdle
    /\ CacheNew
    /\ call = NoCall
    /\ result = NoResult
    /\ lookups = <<>>
    /\ \E roles \in [ObjectIds -> {[role |-> "none"]} \cup ChangedRoles \cup RemovedRoles] :
          /\ provider = ObjectStoreOf(roles)
          /\ tx = ObjectTxOf(roles)

\* A call of get_object_changes on the transaction.
CallGetObjectChanges ==
    /\ call.fn = "none"
    /\ LET r == get_object_changes(provider, tx.sender, tx.modified_at_versions,
                                   tx.all_changed_objects, tx.all_removed_objects)
       IN /\ result' = [ok |-> r.ok, err |-> r.err, records |-> r.records, custom |-> <<>>]
          /\ lookups' = r.lookups
    /\ call' = [fn |-> "get_object_changes"]
    /\ UNCHANGED <<queue_vars, cache_vars, provider, tx>>

\* A call of custom_get_object_changes on the transaction.
CallCustomGetObjectChanges ==
    /\ call.fn = "none"
    /\ LET r == custom_get_object_changes(provider, tx.sender, tx.modified_at_versions,
                    tx.all_changed_objects, tx.all_removed_objects,
                    tx.input_objects, tx.output_objects)
       IN /\ result' = [ok |-> r.ok, err |-> r.err, records |-> r.records,
                        custom |-> r.custom]
          /\ lookups' = r.lookups
    /\ call' = [fn |-> "custom_get_object_changes"]
    /\ UNCHANGED <<queue_vars, cache_vars, provider, tx>>

ObjectNext == CallGetObjectChanges \/ CallCustomGetObjectChanges
SpecObject == ObjectInit /\ [][ObjectNext]_vars

----------------------------------------------------------------------------
(* The four engines over a provider some of whose lookups return an error. *)

\* Transactions of coins of address A: each of two ids may have a coin before the
\* transaction and a coin after it.
ErrorBalanceTxs ==
    LET coin == [owner |-> AddressOwner("A"), kind |-> "coin", coin_type |-> "SUI",
                 balance |-> 1]
    IN {[store |-> StoreOf(prior, new),
         tx |-> BalanceTxOf(prior, new, "Success", 1,
                            [input_objs |-> <<>>, unwrapped_then_deleted |-> {}])] :
           prior \in [BalanceIds -> {coin, Absent}],
           new \in [BalanceIds -> {coin, Absent}]}

\* Transactions of objects: each of two ids takes no part, is a Move object
\* mutated from address B to address A, is a package created, is a Move object
\* of address A deleted, or is wrapped with no earlier version known.
ErrorRoles ==
    {[role |-> "none"],
     [role |-> "changed", kind |-> "Mutate", what |-> "move", post |-> AddressOwner("A"),
      pre |-> AddressOwner("B"), listed |-> TRUE],
     [role |-> "changed", kind |-> "Create", what |-> "package", post |-> Immutable,
      pre |-> Absent, listed |-> FALSE],
     [role |-> "removed", kind |-> "Delete",
      last |-> [kind |-> "move", owner |-> AddressOwner("A")],
      post |-> Absent, pre |-> AddressOwner("A")],
     [role |-> "removed", kind |-> "Wrap", last |-> Absent, post |-> Absent, pre |-> Absent]}
\* A transaction over a store some cells of which are unreadable, each with one of
\* the two values of the provider's error type.
ErrorInit ==
    /\ QueueIdle
    /\ CacheNew
    /\ call = NoCall
    /\ result = NoResult
    /\ lookups = <<>>
    /\ \E t \in ErrorBalanceTxs
                \cup {[store |-> ObjectStoreOf(roles), tx |-> ObjectTxOf(roles)] :
                         roles \in [ObjectIds -> ErrorRoles]} :
          \E broken \in SUBSET DOMAIN t.store :
             \E errors \in [broken -> {"E1", "E2"}] :
                /\ provider = [c \in DOMAIN t.store |->
                                  IF c \in broken THEN Unreadable(errors[c]) ELSE t.store[c]]
                /\ tx = t.tx

ErrorNext ==
    \/ "status" \in DOMAIN tx /\ BalanceNext
    \/ "sender" \in DOMAIN tx /\ ObjectNext
SpecProviderError == ErrorInit /\ [][ErrorNext]_vars

----------------------------------------------------------------------------
(* ObjectProviderCache over a provider that learns versions. *)

CacheIds == {1, 2}
\* The greatest version of an object.
MaxVersion == 2
CacheVersions == 1 .. MaxVersion
\* The objects and versions that exist: every version of object 1, and object 2
\* at its first version.
CacheCells == ({1} \X CacheVersions) \cup {<<2, 1>>}

\* The object of id at version v.
ObjectAt(id, v) == MoveObject(id, v, AddressOwner("A"))

\* The provider's store knowing the cells of a set.
CacheStoreOf(cells) == [c \in cells |-> ObjectAt(c[1], c[2])]

\* The written objects a cache is seeded with: for each id none, or the object
\* written at a version.
WrittenChoices ==
    {w \in [CacheIds -> {0} \cup CacheVersions] :
        \A i \in CacheIds : w[i] # 0 => <<i, w[i]>> \in CacheCells}
WrittenObjectsOf(w) ==
    LET ids == IdsInOrder({i \in CacheIds : w[i] # 0})
    IN [k \in 1 .. Len(ids) |->
           [id |-> ids[k], version |-> w[ids[k]], object |-> ObjectAt(ids[k], w[ids[k]])]]

CacheInit ==
    /\ QueueIdle
    /\ call = NoCall
    /\ result = NoResult
    /\ lookups = <<>>
    /\ \E cells \in SUBSET CacheCells, w \in WrittenChoices :
          /\ provider = CacheStoreOf(cells)
          /\ tx = [written_objects |-> WrittenObjectsOf(w)]
          /\ object_cache = new_with_cache(WrittenObjectsOf(w)).object_cache
          /\ last_version_cache = new_with_cache(WrittenObjectsOf(w)).last_version_cache

\* The outcome of a call on the cache becomes the state.
CacheCalled(fn, id, version, fails, r) ==
    /\ call' = [fn |-> fn, id |-> id, version |-> version, fails |-> fails]
    /\ result' = [ok |-> r.ok, err |-> r.err, obj |-> r.obj]
    /\ lookups' = r.lookups
    /\ object_cache' = r.cache.object_cache
    /\ last_version_cache' = r.cache.last_version_cache
    /\ UNCHANGED <<queue_vars, provider, tx>>

\* A call of get_object on the cache.
CacheGet(id, version, fails) ==
    CacheCalled("get_object", id, version, fails,
                cache_get_object(CacheOf(object_cache, last_version_cache),
                                 provider, fails, id, version))

\* A call of find_object_lt_or_eq_version on the cache.
CacheFindLe(id, version, fails) ==
    CacheCalled("find_object_lt_or_eq_version", id, version, fails,
                cache_find_object_lt_or_eq_version(
                    CacheOf(object_cache, last_version_cache),
                    provider, fails, id, version))

\* The wrapped provider learns the object of id at a version.
ProviderLearns(id, version) ==
    /\ <<id, version>> \notin DOMAIN provider
    /\ provider' = MapInsert(provider, <<id, version>>, ObjectAt(id, version))
    /\ UNCHANGED <<queue_vars, cache_vars, tx, call, result, lookups>>

CacheNext ==
    \/ \E c \in CacheCells, fails \in BOOLEAN : CacheGet(c[1], c[2], fails)
    \/ \E c \in CacheCells, fails \in BOOLEAN : CacheFindLe(c[1], c[2], fails)
    \/ \E c \in CacheCells : ProviderLearns(c[1], c[2])
SpecCache == CacheInit /\ [][CacheNext]_vars

----------------------------------------------------------------------------
(* ObjectProviderCache shared by concurrent tasks, at the grain of its await    *)
(* points.  call[t] is the frame of task t: the call it is in, its position,    *)
(* the guards it holds across an await, the version its get_object is about,    *)
(* the object it fetched, whether it asked the wrapped provider, and whether a  *)
(* run of the call was dropped.  result[t] is what the last call of t returned. *)
(* lookups is the set of the calls made on the wrapped provider, each with the  *)
(* guards its task held when it made it.                                        *)

Tasks == {"t1", "t2"}

\* The inserts of lines 444-451 in their order: object_cache, then
\* last_version_cache.
FindLeInsertOrderSwapped == <<"last_version_cache", "object_cache">>

FindLeInsertOrder == <<"object_cache", "last_version_cache">>

\* The guards alive while the second insert (line 448) is awaited, if the write
\* guard of the first insert were bound to a local of the block.
HeldOverSecondInsertKept == {<<FindLeInsertOrder[1], "write">>}

\* The guards alive while the second insert (line 448) is awaited: none, the
\* write guard of lines 444-447 is a temporary dropped at the end of its
\* statement.
HeldOverSecondInsert == {}

\* Line 447 with the object kept under the queried version.
ExactKeyQueried(id, version, o) == <<id, version>>

\* Line 447: the key of the object a find_le fetched, (*id, o.version()).
ExactKey(id, version, o) == <<id, o.version>>

\* A task not in a call.
IdleFrame ==
    [fn |-> "none", id |-> 0, version |-> 0, pc |-> "idle", held |-> {}, at |-> 0,
     obj |-> None, looked |-> FALSE, dropped |-> FALSE]

\* What a call returns to its caller: Ok(obj) or Err(err).
Return(f, ok, err, obj) ==
    [fn |-> f.fn, id |-> f.id, version |-> f.version, ok |-> ok, err |-> err, obj |-> obj,
     looked |-> f.looked]

\* Task t returns r from its call.
TaskReturns(t, r) ==
    /\ call' = [call EXCEPT ![t] = [IdleFrame EXCEPT !.dropped = call[t].dropped]]
    /\ result' = [result EXCEPT ![t] = r]

\* The map whose write guard task u is waiting for or about to take.
WantsWrite(u) ==
    CASE call[u].pc = "get_write"     -> {"object_cache"}
      [] call[u].pc = "find_insert_1" -> {FindLeInsertOrder[1]}
      [] call[u].pc = "find_insert_2" -> {FindLeInsertOrder[2]}
      [] OTHER                        -> {}

\* tokio::sync::RwLock::write on map m resolves for task t when no other task
\* holds a guard on m.
CanWrite(t, m) ==
    \A u \in Tasks \ {t} : call[u].held \cap {<<m, "read">>, <<m, "write">>} = {}

\* tokio::sync::RwLock::read on map m resolves for task t when no other task
\* holds the write guard and none is queued for it (the lock is
\* write-preferring).
CanRead(t, m) ==
    \A u \in Tasks \ {t} :
        /\ <<m, "write">> \notin call[u].held
        /\ ~(m \in WantsWrite(u) /\ ~CanWrite(u, m))

\* Task t calls get_object or find_object_lt_or_eq_version on the cache.
TaskBegins(t, fn, id, version) ==
    /\ call[t].pc = "idle"
    /\ call' = [call EXCEPT ![t] =
                   [fn |-> fn, id |-> id, version |-> version,
                    pc |-> IF fn = "get_object" THEN "get_read" ELSE "find_read",
                    held |-> {}, at |-> version, obj |-> None, looked |-> FALSE,
                    dropped |-> call[t].dropped]]
    /\ result' = [result EXCEPT ![t] = NoResult]
    /\ UNCHANGED <<queue_vars, cache_vars, provider, tx, lookups>>

\* The future of task t's call is dropped at the await it is suspended at: its
\* guards are released, nothing is returned.
TaskCancel(t) ==
    /\ call[t].pc # "idle"
    /\ call' = [call EXCEPT ![t] = [IdleFrame EXCEPT !.dropped = TRUE]]
    /\ UNCHANGED <<queue_vars, cache_vars, provider, tx, result, lookups>>

\* Lines 415-429: get_object, called by task t or by its find_le (line 437), one
\* await point after another.  The read guard of line 420 and the write guard of
\* lines 424-427 are temporaries dropped before the next await; a guard in
\* call[t].held is the caller's.  Called by find_le, its result goes through
\* .ok() (line 437).
TaskGetObject(t) ==
    LET f   == call[t]
        key == <<f.id, f.at>>
        Ok(o)  == Return(f, TRUE, "", Some(o))
        Err(e) == IF f.fn = "get_object" THEN Return(f, FALSE, e, None)
                  ELSE Return(f, TRUE, "", None)
    IN \/ /\ f.pc = "get_read"
          /\ CanRead(t, "object_cache")
          /\ IF key \in DOMAIN object_cache
             THEN TaskReturns(t, Ok(object_cache[key]))
             ELSE /\ call' = [call EXCEPT ![t] = [f EXCEPT !.pc = "get_provider"]]
                  /\ UNCHANGED result
          /\ UNCHANGED <<queue_vars, cache_vars, provider, tx, lookups>>
       \/ /\ f.pc = "get_provider"
          /\ lookups' = lookups \cup {[op |-> "get_object", id |-> f.id, version |-> f.at,
                                       held |-> f.held]}
          /\ IF ProviderGet(provider, f.id, f.at).ok
             THEN /\ call' = [call EXCEPT ![t] =
                                [f EXCEPT !.pc = "get_write", !.looked = TRUE,
                                          !.obj = Some(ProviderGet(provider, f.id, f.at).obj)]]
                  /\ UNCHANGED result
             ELSE TaskReturns(t, [Err(ProviderGet(provider, f.id, f.at).err)
                                     EXCEPT !.looked = TRUE])
          /\ UNCHANGED <<queue_vars, cache_vars, provider, tx>>
       \/ /\ f.pc = "get_write"
          /\ CanWrite(t, "object_cache")
          /\ object_cache' = MapInsert(object_cache, key, f.obj[1])
          /\ TaskReturns(t, Ok(f.obj[1]))
          /\ UNCHANGED <<queue_vars, last_version_cache, provider, tx, lookups>>

\* Lines 431-456: find_object_lt_or_eq_version called by task t.  On a hit the
\* read guard of line 436 lives through the body of the `if let`, that is over
\* the call of get_object.
TaskFindLe(t) ==
    LET f   == call[t]
        key == <<f.id, f.version>>
        Insert(which) ==
            /\ CanWrite(t, which)
            /\ IF which = "object_cache"
               THEN /\ object_cache' = MapInsert(object_cache,
                                                 ExactKey(f.id, f.version, f.obj[1]),
                                                 f.obj[1])
                    /\ UNCHANGED last_version_cache
               ELSE /\ last_version_cache' = MapInsert(last_version_cache, key,
                                                       f.obj[1].version)
                    /\ UNCHANGED object_cache
    IN \/ /\ f.pc = "find_read"
          /\ CanRead(t, "last_version_cache")
          /\ call' = [call EXCEPT ![t] =
                         IF key \in DOMAIN last_version_cache
                         THEN [f EXCEPT !.pc = "get_read",
                                        !.held = {<<"last_version_cache", "read">>},
                                        !.at = last_version_cache[key]]
                         ELSE [f EXCEPT !.pc = "find_provider"]]
          /\ UNCHANGED <<queue_vars, cache_vars, provider, tx, result, lookups>>
       \/ /\ f.pc = "find_provider"
          /\ lookups' = lookups \cup {[op |-> "find_object_lt_or_eq_version", id |-> f.id,
                                       version |-> f.version, held |-> f.held]}
          /\ IF ProviderFindLe(provider, f.id, f.version) # None
             THEN /\ call' = [call EXCEPT ![t] =
                                [f EXCEPT !.pc = "find_insert_1", !.looked = TRUE,
                                          !.obj = ProviderFindLe(provider, f.id, f.version)]]
                  /\ UNCHANGED result
             ELSE TaskReturns(t, [Return(f, TRUE, "", None) EXCEPT !.looked = TRUE])
          /\ UNCHANGED <<queue_vars, cache_vars, provider, tx>>
       \/ /\ f.pc = "find_insert_1"
          /\ Insert(FindLeInsertOrder[1])
          /\ call' = [call EXCEPT ![t] = [f EXCEPT !.pc = "find_insert_2",
                                                   !.held = HeldOverSecondInsert]]
          /\ UNCHANGED <<queue_vars, provider, tx, result, lookups>>
       \/ /\ f.pc = "find_insert_2"
          /\ Insert(FindLeInsertOrder[2])
          /\ TaskReturns(t, Return(f, TRUE, "", f.obj))
          /\ UNCHANGED <<queue_vars, provider, tx, lookups>>

\* A cache, new or seeded, over a provider that knows some versions of object 1,
\* and the tasks that share it.
TasksInit ==
    /\ QueueIdle
    /\ call = [t \in Tasks |-> IdleFrame]
    /\ result = [t \in Tasks |-> NoResult]
    /\ lookups = {}
    /\ \E cells \in SUBSET ({1} \X CacheVersions), w \in WrittenChoices :
          /\ w[2] = 0
          /\ provider = CacheStoreOf(cells)
          /\ tx = [written_objects |-> WrittenObjectsOf(w)]
          /\ object_cache = new_with_cache(WrittenObjectsOf(w)).object_cache
          /\ last_version_cache = new_with_cache(WrittenObjectsOf(w)).last_version_cache

TasksNext ==
    \E t \in Tasks :
        \/ \E v \in CacheVersions, fn \in {"get_object", "find_object_lt_or_eq_version"} :
              TaskBegins(t, fn, 1, v)
        \/ TaskGetObject(t)
        \/ TaskFindLe(t)
SpecCacheTasks == TasksInit /\ [][TasksNext]_vars

\* Two tasks each make one call on a cache, new or seeded: the calls race, and
\* a call whose future was dropped is made again.
RaceInit ==
    /\ QueueIdle
    /\ call = [t \in Tasks |-> IdleFrame]
    /\ result = [t \in Tasks |-> NoResult]
    /\ lookups = {}
    /\ \E cells \in SUBSET ({1} \X CacheVersions), w \in WrittenChoices,
          calls \in [Tasks -> [fn : {"get_object", "find_object_lt_or_eq_version"},
                                id : {1}, version : CacheVersions]] :
          /\ w[2] = 0
          /\ provider = CacheStoreOf(cells)
          /\ tx = [written_objects |-> WrittenObjectsOf(w), calls |-> calls]
          /\ object_cache = new_with_cache(WrittenObjectsOf(w)).object_cache
          /\ last_version_cache = new_with_cache(WrittenObjectsOf(w)).last_version_cache

RaceNext ==
    \E t \in Tasks :
        \/ /\ result[t] = NoResult
           /\ TaskBegins(t, tx.calls[t].fn, tx.calls[t].id, tx.calls[t].version)
        \/ TaskGetObject(t)
        \/ TaskFindLe(t)
        \/ TaskCancel(t)
SpecCacheRace == RaceInit /\ [][RaceNext]_vars

\* Every provider call returns and tokio's RwLock is fair: a task waiting for a
\* guard is granted it before the tasks that ask later, so a call whose next
\* step is possible again and again takes it.
SpecCacheRaceLive ==
    SpecCacheRace /\ \A t \in Tasks : SF_vars(TaskGetObject(t) \/ TaskFindLe(t))

----------------------------------------------------------------------------
(* Ordered publisher: what the claims speak of. *)

SeqsOf(trace) == [i \in 1 .. Len(trace) |-> trace[i].seq]

Distinct(s) == \A i, j \in 1 .. Len(s) : i # j => s[i] # s[j]

\* The start index of a channel: the preset init_checkpoint, or the sequence
\* number of the first batch processed.
StartOf(trace) == IF init_checkpoint # U64_MAX THEN init_checkpoint ELSE trace[1].seq

HasStart(trace) == init_checkpoint # U64_MAX \/ Len(trace) > 0

\* The iteration of the loop that received the batch with sequence number s.
IterOf(trace, s) == CHOOSE i \in 1 .. Len(trace) : trace[i].seq = s

\* The smallest n >= from that is no sequence number of a received batch.
RECURSIVE SmallestMissing(_, _)
SmallestMissing(from, got) ==
    IF from \in got THEN SmallestMissing(from + 1, got) ELSE from

\* The messages of the batches from..to-1, in ascending order of sequence number.
RECURSIVE WsConcat(_, _, _)
WsConcat(trace, from, to) ==
    IF from >= to THEN <<>>
    ELSE trace[IterOf(trace, from)].msgs \o WsConcat(trace, from + 1, to)

\* The sequence number of the batch a ws message was enqueued in (the mailbox is
\* FIFO: the k-th batch enqueued is the k-th received).
WsMsgSeq(m) == ws_trace[m[1]].seq

\* C1: on the websocket channel, when the batches received so far have pairwise
\* distinct sequence numbers, the forwarded batches are start, start+1, ... in this
\* order, the messages on the bus are in ascending order of their batches' sequence
\* numbers, come from exactly the forwarded batches, and none is forwarded twice.
C1_WsAscendingRun ==
    Distinct(SeqsOf(ws_trace)) =>
        /\ \A i \in 1 .. Len(ws_sent) : ws_sent[i] = StartOf(ws_trace) + i - 1
        /\ \A i, j \in 1 .. Len(ws_published) :
              i < j => /\ ws_published[i] # ws_published[j]
                       /\ WsMsgSeq(ws_published[i]) <= WsMsgSeq(ws_published[j])
        /\ {WsMsgSeq(m) : m \in Range(ws_published)} = Range(ws_sent)

\* C1 witness: batches arrived out of order and three of them were forwarded.
C1_Witness ==
    /\ Distinct(SeqsOf(ws_trace))
    /\ Len(ws_sent) >= 3
    /\ \E i \in 1 .. Len(ws_trace) - 1 : ws_trace[i].seq > ws_trace[i + 1].seq

\* C2: after the ws consumer has processed batches with pairwise distinct sequence
\* numbers all >= start, next_index is the smallest n >= start with no batch
\* received, and the bus holds exactly the messages of batches start..n-1, in
\* ascending sequence order, each batch's messages in their own order.
C2_WsPrefixForwarded ==
    (/\ HasStart(ws_trace)
     /\ Distinct(SeqsOf(ws_trace))
     /\ \A i \in 1 .. Len(ws_trace) : ws_trace[i].seq >= StartOf(ws_trace))
    => LET start == StartOf(ws_trace)
           n     == SmallestMissing(start, Range(SeqsOf(ws_trace)))
       IN /\ ws_next_index = n
          /\ ws_published = WsConcat(ws_trace, start, n)

\* C2 witness: the scenario (100,[m1]), (102,[m3]), (101,[m2]) on an uninitialized
\* index, with sequence numbers 1, 3, 2: all forwarded in order, next_index = 4.
C2_Witness ==
    /\ init_checkpoint = U64_MAX
    /\ SeqsOf(ws_trace) = <<1, 3, 2>>
    /\ ws_published = WsMsgs(1) \o WsMsgs(3) \o WsMsgs(2)
    /\ ws_next_index = 4

\* C7: a batch received on the ws channel with a sequence number smaller than the
\* expected-next index is dropped: none of its messages is on the bus in this or
\* any later state, and the iteration that received it left next_index unchanged.
C7_LateBatchDropped ==
    \A i \in 1 .. Len(ws_trace) :
        ws_trace[i].seq < ws_trace[i].expected =>
            /\ Range(ws_trace[i].msgs) \cap Range(ws_published) = {}
            /\ ws_trace[i].next_after = ws_trace[i].expected

\* C7 witness: a late batch was received and the index has advanced since.
C7_Witness ==
    \E i \in 1 .. Len(ws_trace) :
        /\ ws_trace[i].seq < ws_trace[i].expected
        /\ ws_next_index > ws_trace[i].expected

\* The notification Vecs of the batches whose sequence numbers are listed in sent,
\* in that order, each batch's Vecs in ascending order of inner key.
RECURSIVE NtConcat(_, _)
NtConcat(trace, sent) ==
    IF sent = <<>> THEN <<>>
    ELSE MapValues(trace[IterOf(trace, Head(sent))].notifications)
         \o NtConcat(trace, Tail(sent))

\* C8: on the notifications channel, when the batches received have pairwise
\* distinct sequence numbers, what is forwarded for each sequence number sent,
\* drained ones included, is that batch's own notifications, each exactly once.
C8_NtDrainForwardsBuffered ==
    Distinct(SeqsOf(nt_trace)) => nt_published = NtConcat(nt_trace, nt_sent)

----------------------------------------------------------------------------
(* Balance-change engines: what the claims speak of. *)

\* The entries of a list whose object, as the provider holds it, is a coin.
CoinEntries(objects) ==
    {i \in 1 .. Len(objects) :
        /\ <<objects[i].id, objects[i].version>> \in DOMAIN provider
        /\ provider[<<objects[i].id, objects[i].version>>].kind = "coin"}

CoinAt(objects, i) == provider[<<objects[i].id, objects[i].version>>]

KeyOfCoin(o) == <<o.owner, o.coin_type>>

\* The sum of the balances of the coins at the entries idx of a list.
RECURSIVE SumBalances(_, _)
SumBalances(objects, idx) ==
    IF idx = {} THEN 0
    ELSE LET i == CHOOSE x \in idx : TRUE
         IN CoinAt(objects, i).balance + SumBalances(objects, idx \ {i})

\* The net of a key: the coins of all_mutated minus the coins of modified_at_version.
NetOf(k) ==
    SumBalances(call.inner.all_mutated,
                {i \in CoinEntries(call.inner.all_mutated) :
                    KeyOfCoin(CoinAt(call.inner.all_mutated, i)) = k})
    - SumBalances(call.inner.modified_at_version,
                  {i \in CoinEntries(call.inner.modified_at_version) :
                      KeyOfCoin(CoinAt(call.inner.modified_at_version, i)) = k})

CoinKeys ==
    {KeyOfCoin(CoinAt(call.inner.all_mutated, i)) : i \in CoinEntries(call.inner.all_mutated)}
    \cup {KeyOfCoin(CoinAt(call.inner.modified_at_version, i)) :
             i \in CoinEntries(call.inner.modified_at_version)}

\* C3: for a Success transaction the basic engine returns, for every (owner,
\* coin type) of a fetched coin whose net (outputs minus inputs) is not 0, exactly
\* one record, whose amount is that net, and no other record; objects that are
\* not coins count for nothing.
C3_NetPerOwnerAndCoinType ==
    (/\ call.fn = "get_balance_changes_from_effect"
     /\ tx.status = "Success"
     /\ result.ok)
    => /\ \A k \in CoinKeys :
             NetOf(k) # 0 =>
                 Cardinality({i \in 1 .. Len(result.records) :
                     <<result.records[i].owner, result.records[i].coin_type>> = k}) = 1
       /\ \A i \in 1 .. Len(result.records) :
             LET k == <<result.records[i].owner, result.records[i].coin_type>>
             IN /\ k \in CoinKeys
                /\ NetOf(k) # 0
                /\ result.records[i].amount = NetOf(k)

\* C3 witness: scenario S1, one input coin of A with balance 2 and the same coin
\* as output with balance 1: the single record (A, SUI, -1).
C3_Witness ==
    /\ call.fn = "get_balance_changes_from_effect"
    /\ tx.status = "Success"
    /\ Len(call.inner.modified_at_version) = 1
    /\ Len(call.inner.all_mutated) = 1
    /\ CoinAt(call.inner.modified_at_version, 1).balance = 2
    /\ result.ok
    /\ result.records = <<[owner |-> AddressOwner("A"), coin_type |-> "SUI", amount |-> -1]>>

\* C4: for effects whose status is not Success, whatever the object lists, input
\* object kinds, mocked coin and maps, the basic engine returns exactly the record
\* (gas owner, GAS, -G), the extended engine exactly (gas owner, GAS, -G, gas
\* object id, Mutated), and no provider lookup is made.
C4_FailureFastPath ==
    (call.fn # "none" /\ tx.status # "Success")
    => /\ lookups = <<>>
       /\ result.ok
       /\ call.fn = "get_balance_changes_from_effect" =>
             result.records = <<[owner |-> tx.gas_owner, coin_type |-> "SUI",
                                 amount |-> 0 - tx.net_gas_usage]>>
       /\ call.fn = "get_balance_changes_with_status_from_effect" =>
             result.records = <<[owner |-> tx.gas_owner, coin_type |-> "SUI",
                                 amount |-> 0 - tx.net_gas_usage,
                                 object_id |-> <<"0x", tx.gas_object_id>>,
                                 status |-> "Mutated"]>>

\* C4 witness: the extended engine on a failed transaction with changed objects,
\* a prior version to fetch and net gas usage 1.
C4_Witness ==
    /\ call.fn = "get_balance_changes_with_status_from_effect"
    /\ tx.status = "Failure"
    /\ tx.net_gas_usage = 1
    /\ Len(tx.all_changed_objects) = 2
    /\ Len(tx.modified_at_versions) = 2
    /\ Len(result.records) = 1
    /\ result.records[1].amount = -1

----------------------------------------------------------------------------
(* Object-change engines: what the claims speak of. *)

\* The entries of a sequence, as a set.
Entries(seq) == {seq[k] : k \in DOMAIN seq}

\* The positions of the canonical records about object id, and of the extended
\* records about it.
CanonicalAbout(id) ==
    {k \in DOMAIN result.records :
        result.records[k].tag # "Published" /\ result.records[k].object_id = id}
ExtendedAbout(id) ==
    {k \in DOMAIN result.custom : result.custom[k].object_id = IdToString(id)}

\* The address owning id among the input objects, and among the output objects.
InputAddressOwners(id) ==
    {o.owner.who : o \in {x \in Entries(tx.input_objects) :
                             x.id = id /\ x.owner.kind = "AddressOwner"}}
OutputAddressOwners(id) ==
    {o.owner.who : o \in {x \in Entries(tx.output_objects) :
                             x.id = id /\ x.owner.kind = "AddressOwner"}}

CustomDone == call.fn = "custom_get_object_changes" /\ result.ok
BasicDone == call.fn = "get_object_changes" /\ result.ok

\* A changed entry written with Mutate or Create, owned by address a before the
\* transaction and by address b after it.
Moved(c, a, b) ==
    /\ c.kind \in {"Mutate", "Create"}
    /\ a \in InputAddressOwners(c.id)
    /\ c.owner = AddressOwner(b)

\* C5: for a changed object written with Mutate or Create, owned by address A
\* among the input objects and by an address B # A after the transaction, the
\* extended engine emits exactly one extended record, with status
\* Received{sender A, receiver B}, routed to B.
C5_ReceivedRoutedToNewOwner ==
    CustomDone =>
        \A c \in Entries(tx.all_changed_objects) :
            \A a \in {"A", "B"}, b \in {"A", "B"} :
                (Moved(c, a, b) /\ a # b) =>
                    /\ Cardinality(ExtendedAbout(c.id)) = 1
                    /\ \A k \in ExtendedAbout(c.id) :
                          /\ result.custom[k].status = Received(a, b)
                          /\ result.custom[k].target = Some(b)

\* C5: both a Mutate and a Create that move an object from A to B were handled.
C5_Witness ==
    /\ CustomDone
    /\ \E c \in Entries(tx.all_changed_objects) :
          c.kind = "Mutate" /\ Moved(c, "A", "B")
    /\ \E c \in Entries(tx.all_changed_objects) :
          c.kind = "Create" /\ Moved(c, "A", "B")
    /\ Len(result.custom) = 2

\* A removed entry that resolves through the provider to a Move object.
ResolvesToMove(r) ==
    LET found == ProviderFindLe(provider, r.id, r.version)
    IN found # None /\ HasType(found[1])

\* C6: for a removed object that resolves to a Move object, with address owner R
\* in the output-owners map and pre-transaction owner S in the input-owners map,
\* the extended engine emits one extended record with status
\* Sent{sender S, receiver R}, routed to S.
C6_SentFromOldOwner ==
    CustomDone =>
        \A r \in Entries(tx.all_removed_objects) :
            \A s \in InputAddressOwners(r.id), t \in OutputAddressOwners(r.id) :
                ResolvesToMove(r) =>
                    /\ Cardinality(ExtendedAbout(r.id)) = 1
                    /\ \A k \in ExtendedAbout(r.id) :
                          /\ result.custom[k].status = Sent(s, t)
                          /\ result.custom[k].target = Some(s)

\* C9: for a changed object owned by the same address A among the input objects
\* and after the transaction, the extended engine emits an extended record with
\* status Mutated and no routing address.
C9_SameOwnerMutated ==
    CustomDone =>
        \A c \in Entries(tx.all_changed_objects) :
            \A a \in {"A", "B"} :
                Moved(c, a, a) =>
                    \E k \in ExtendedAbout(c.id) :
                        /\ result.custom[k].status = Status("Mutated")
                        /\ result.custom[k].target = None

\* The version listed for id in modified_at_versions, or 0 when none is listed.
ListedVersion(id) ==
    LET listed == {m \in Entries(tx.modified_at_versions) : m.id = id}
    IN IF listed = {} THEN 0 ELSE (CHOOSE m \in listed : TRUE).version

\* C10: get_object_changes emits, for each changed entry whose object is a Move
\* object, a Created record for Create, a Mutated record for Mutate with
\* previous-version the version listed for the id in modified_at_versions or 0
\* when none is listed, and no record for Unwrap; for each removed entry that
\* resolves through the provider to a Move object, a Deleted or a Wrapped record
\* according to its remove kind, and no record when nothing resolves.
C10_CanonicalRecords ==
    BasicDone =>
        /\ \A c \in Entries(tx.all_changed_objects) :
              HasType(provider[<<c.id, c.version>>]) =>
                  LET about == {result.records[k] : k \in CanonicalAbout(c.id)}
                      type  == ObjectTypeOf(provider[<<c.id, c.version>>])
                  IN /\ Cardinality(CanonicalAbout(c.id))
                           = IF c.kind = "Unwrap" THEN 0 ELSE 1
                     /\ c.kind = "Create" =>
                           about = {[tag |-> "Created", sender |-> tx.sender,
                                     owner |-> c.owner, object_type |-> type,
                                     object_id |-> c.id, version |-> c.version,
                                     digest |-> c.digest]}
                     /\ c.kind = "Mutate" =>
                           about = {[tag |-> "Mutated", sender |-> tx.sender,
                                     owner |-> c.owner, object_type |-> type,
                                     object_id |-> c.id, version |-> c.version,
                                     previous_version |-> ListedVersion(c.id),
                                     digest |-> c.digest]}
        /\ \A r \in Entries(tx.all_removed_objects) :
              LET found == ProviderFindLe(provider, r.id, r.version)
                  about == {result.records[k] : k \in CanonicalAbout(r.id)}
              IN /\ found = None => about = {}
                 /\ ResolvesToMove(r) =>
                       /\ Cardinality(CanonicalAbout(r.id)) = 1
                       /\ about = {[tag |-> IF r.kind = "Delete" THEN "Deleted"
                                            ELSE "Wrapped",
                                    sender |-> tx.sender,
                                    object_type |-> ObjectTypeOf(found[1]),
                                    object_id |-> r.id, version |-> r.version]}

\* C10: a Mutate of a Move object not listed in modified_at_versions and a Wrap
\* that resolves to a Move object were reported, as a Mutated record with
\* previous-version 0 and a Wrapped record.
C10_Witness ==
    /\ BasicDone
    /\ \E c \in Entries(tx.all_changed_objects) :
          /\ c.kind = "Mutate"
          /\ HasType(provider[<<c.id, c.version>>])
          /\ \A m \in Entries(tx.modified_at_versions) : m.id # c.id
          /\ \E k \in CanonicalAbout(c.id) :
                result.records[k].tag = "Mutated"
                /\ result.records[k].previous_version = 0
    /\ \E r \in Entries(tx.all_removed_objects) :
          /\ r.kind = "Wrap"
          /\ ResolvesToMove(r)
          /\ \E k \in CanonicalAbout(r.id) : result.records[k].tag = "Wrapped"

----------------------------------------------------------------------------
(* ObjectProviderCache: what the claims speak of. *)

\* A step that is a call of find_object_lt_or_eq_version, or of get_object, on
\* the cache (the wrapped provider learns nothing during a call).
FindLeStep == provider' = provider /\ call'.fn = "find_object_lt_or_eq_version"
GetStep == provider' = provider /\ call'.fn = "get_object"
FindLeDone == call.fn = "find_object_lt_or_eq_version"
GetDone == call.fn = "get_object"
CallKey == <<call.id, call.version>>
CacheNow == CacheOf(object_cache, last_version_cache)

\* C11: cache.find_le(id, v): if (id, v) is in the resolved-le cache with value
\* r, the result is that of get(id, r) and the provider's find_le is not called;
\* otherwise the provider's find_le is called, and when it returns an object o
\* the exact cache gains (id, o.version) -> o and the resolved-le cache gains
\* (id, v) -> o.version, while when it returns empty the result is empty and
\* both caches are unchanged.
C11_FindLeThroughCache ==
    [][FindLeStep =>
        LET key == CallKey'
        IN IF key \in DOMAIN last_version_cache
           THEN LET r == last_version_cache[key]
                    g == cache_get_object(CacheNow, provider, call'.fails, call'.id, r)
                IN /\ \A k \in DOMAIN lookups' :
                         lookups'[k].op # "find_object_lt_or_eq_version"
                   /\ lookups' = g.lookups
                   /\ CacheNow' = g.cache
                   /\ g.ok => (result'.ok /\ result'.obj = g.obj)
                   /\ ~g.ok => ~(result'.ok /\ result'.obj # None)
           ELSE /\ lookups' = <<FindLeCall(call'.id, call'.version)>>
                /\ ~call'.fails =>
                      LET found == ProviderFindLe(provider, call'.id, call'.version)
                      IN /\ result'.ok /\ result'.obj = found
                         /\ found = None => CacheNow' = CacheNow
                         /\ found # None =>
                               /\ object_cache' =
                                     MapInsert(object_cache,
                                               <<call'.id, found[1].version>>, found[1])
                               /\ last_version_cache' =
                                     MapInsert(last_version_cache, key,
                                               found[1].version)]_vars

\* C11: a find_le answered from the caches, without a call of the provider, with
\* the version memoized for the query, below the queried version that the
\* provider has learned since.
C11_Witness ==
    /\ FindLeDone
    /\ CallKey \in DOMAIN last_version_cache
    /\ last_version_cache[CallKey] < call.version
    /\ CallKey \in DOMAIN provider
    /\ lookups = <<>>
    /\ result.ok /\ result.obj = Some(object_cache[<<call.id, last_version_cache[CallKey]>>])

\* C12: after cache.get(id, v) succeeds the exact cache holds (id, v) -> that
\* object, and every later get(id, v) returns the same object without calling
\* the provider (an entry of the exact cache is never changed or dropped, and a
\* get of a key it holds answers with the entry and makes no provider call); a
\* get whose provider lookup fails leaves both cache maps unchanged.
C12_GetMemoized ==
    [][/\ \A k \in DOMAIN object_cache :
             k \in DOMAIN object_cache' /\ object_cache'[k] = object_cache[k]
       /\ GetStep =>
             LET key == CallKey'
             IN /\ result'.ok =>
                      /\ key \in DOMAIN object_cache'
                      /\ result'.obj = Some(object_cache'[key])
                /\ ~result'.ok => CacheNow' = CacheNow
                /\ key \in DOMAIN object_cache =>
                      /\ result'.ok
                      /\ result'.obj = Some(object_cache[key])
                      /\ lookups' = <<>>]_vars

\* C12: on a cache that started empty and memoized no find_le, a get answered
\* with the object an earlier get had fetched, without a provider call, at a
\* moment when the provider would have failed.
C12_Witness ==
    /\ GetDone
    /\ tx.written_objects = <<>>
    /\ last_version_cache = EmptyMap
    /\ call.fails
    /\ lookups = <<>>
    /\ result.ok /\ result.obj = Some(ObjectAt(call.id, call.version))

----------------------------------------------------------------------------
(* Extended balance-change engine: what the claims speak of. *)

ExtendedDone ==
    call.fn = "get_balance_changes_with_status_from_effect" /\ tx.status = "Success"

\* The per-(owner, coin type, object id) records the call got from
\* custom_get_balance_changes.
CoinRecords ==
    custom_get_balance_changes(provider, call.inner.modified_at_version,
                               call.inner.all_mutated)

\* The first rule that applies to record bc under the maps of the call: <<>>
\* when none does.
RuleFor(bc) ==
    LET maps == call.maps[1]
        id   == bc.object_id
    IN IF id \in DOMAIN maps.input_objects_to_owner
          /\ maps.input_objects_to_owner[id] # bc.owner
       THEN <<"Created">>
       ELSE IF id \in DOMAIN maps.output_objects_to_owner
               /\ maps.output_objects_to_owner[id] # bc.owner
       THEN <<"Deleted">>
       ELSE IF id \in DOMAIN maps.status_map THEN <<maps.status_map[id]>>
       ELSE <<>>

\* C13: for a Success transaction each per-(owner, coin type, object id) record
\* of the extended engine gets its status from the first rule that applies:
\* Created if the id is in the input-owners map with another owner; else Deleted
\* if it is in the output-owners map with another owner; else the status the
\* status map has for the id; and when the status map has none the call fails
\* and emits no record.
C13_StatusByFirstRule ==
    (ExtendedDone /\ CoinRecords.ok) =>
        LET coins == CoinRecords.records
        IN IF \E i \in DOMAIN coins : RuleFor(coins[i]) = <<>>
           THEN ~result.ok /\ result.records = <<>>
           ELSE /\ result.ok
                /\ Len(result.records) = Len(coins) + 1
                /\ \A i \in DOMAIN coins :
                      /\ result.records[i].owner = coins[i].owner
                      /\ result.records[i].coin_type = coins[i].coin_type
                      /\ result.records[i].amount = coins[i].amount
                      /\ result.records[i].object_id[2] = coins[i].object_id
                      /\ result.records[i].status = RuleFor(coins[i])[1]

\* C13: a call whose coin records got Created from the input-owners map, Deleted
\* from the output-owners map and Mutated from the status map.
C13_Witness ==
    /\ ExtendedDone
    /\ result.ok
    /\ call.maps[1].status_map = UniformMap(Some("Mutated"))
    /\ call.maps[1].input_objects_to_owner = UniformMap(Some(AddressOwner("A")))
    /\ call.maps[1].output_objects_to_owner = UniformMap(Some(AddressOwner("A")))
    /\ \E i \in 1 .. Len(result.records) - 1 : result.records[i].status = "Created"
    /\ \E i \in 1 .. Len(result.records) - 1 : result.records[i].status = "Mutated"

\* C13: a call that failed because the status map had no status for a record to
\* which neither owner rule applied.
C13_WitnessFatal ==
    /\ ExtendedDone
    /\ CoinRecords.ok
    /\ \E i \in DOMAIN CoinRecords.records : RuleFor(CoinRecords.records[i]) = <<>>
    /\ \E i \in DOMAIN CoinRecords.records : RuleFor(CoinRecords.records[i]) = <<"Created">>
    /\ ~result.ok

MismatchedEntries ==
    {e \in Entries(call.inner.modified_at_version) \cup Entries(call.inner.all_mutated) :
        /\ e.digest # None
        /\ <<e.id, e.version>> \in DOMAIN provider
        /\ e.digest[1] # provider[<<e.id, e.version>>].digest}

\* C15: if a digest supplied for an entry (the input object's digest for an
\* ImmOrOwned input, or the effects digest for a changed object) disagrees with
\* the digest of the object the provider returns for it, the balance-change
\* engine fails and returns no records, whatever the fetched object is.
C15_DigestMismatchFatal ==
    (call.fn # "none" /\ tx.status = "Success" /\ MismatchedEntries # {})
        => (~result.ok /\ result.records = <<>>)

\* What the engine of the call returns on effects e, with mocked coin m and the
\* other arguments of the call.
EngineOn(e, m) ==
    LET r == IF call.fn = "get_balance_changes_from_effect"
             THEN get_balance_changes_from_effect(provider, e, tx.input_objs, m)
             ELSE get_balance_changes_with_status_from_effect(provider, e, tx.input_objs, m,
                      call.maps[1].status_map, call.maps[1].input_objects_to_owner,
                      call.maps[1].output_objects_to_owner)
    IN [result |-> [ok |-> r.ok, err |-> r.err, records |-> r.records],
        lookups |-> r.lookups]

BalanceDone == call.fn # "none" /\ tx.status = "Success"

\* C16: for a Success transaction an id listed in unwrapped-then-deleted never
\* causes a provider lookup at its modified-at version and contributes nothing
\* on the input side of either engine (the call returns what it returns on the
\* effects without the id's modified-at entries), while the same id, if among
\* all-changed-objects, is still looked up and counted on the output side.
C16_UnwrappedThenDeletedSkipped ==
    BalanceDone =>
        LET without == [tx EXCEPT
                           !.modified_at_versions =
                               SelectSeq(@, LAMBDA m : m.id \notin tx.unwrapped_then_deleted),
                           !.unwrapped_then_deleted = {}]
            r == EngineOn(without, call.mocked_coin)
        IN /\ \A m \in Entries(tx.modified_at_versions) :
                 m.id \in tx.unwrapped_then_deleted =>
                     GetCall(m.id, m.version) \notin Range(lookups)
           /\ result = r.result
           /\ lookups = r.lookups
           /\ result.ok =>
                 \A c \in Entries(tx.all_changed_objects) :
                     (c.id \in tx.unwrapped_then_deleted
                      /\ ~IsMocked(call.mocked_coin, c.id))
                         => GetCall(c.id, c.version) \in Range(lookups)

\* C16: object 2, a coin of balance 1 before and after the transaction, is
\* unwrapped then deleted and the only object touched: the basic engine looks up
\* its new version only and reports +1.
C16_Witness ==
    /\ BalanceDone
    /\ call.fn = "get_balance_changes_from_effect"
    /\ tx.unwrapped_then_deleted = {2}
    /\ Len(tx.modified_at_versions) = 1 /\ tx.modified_at_versions[1].id = 2
    /\ Len(tx.all_changed_objects) = 1 /\ tx.all_changed_objects[1].id = 2
    /\ provider[<<2, PriorVersion>>].kind = "coin"
    /\ provider[<<2, PriorVersion>>].balance = 1
    /\ lookups = <<GetCall(2, NewVersion)>>
    /\ result.records = <<[owner |-> AddressOwner("A"), coin_type |-> "SUI", amount |-> 1]>>

\* C17: for a Success transaction an object whose id is the mocked coin is never
\* looked up in the provider and contributes nothing to a balance record, on the
\* input side or the output side: the output is the same as if every entry with
\* that id were removed from the effects.
C17_MockedCoinIgnored ==
    (BalanceDone /\ call.mocked_coin # None) =>
        LET coin == call.mocked_coin[1]
            without == [tx EXCEPT
                           !.modified_at_versions = SelectSeq(@, LAMBDA m : m.id # coin),
                           !.all_changed_objects = SelectSeq(@, LAMBDA c : c.id # coin)]
            r == EngineOn(without, None)
        IN /\ \A k \in DOMAIN lookups : lookups[k].id # coin
           /\ result = r.result
           /\ lookups = r.lookups

\* C17: object 1, the mocked coin, is a coin of balance 2 before the transaction
\* and of balance 1 after it, and the call returns no coin record for it.
C17_Witness ==
    /\ BalanceDone
    /\ call.fn = "get_balance_changes_from_effect"
    /\ call.mocked_coin = Some(1)
    /\ <<1, PriorVersion>> \in DOMAIN provider /\ <<1, NewVersion>> \in DOMAIN provider
    /\ provider[<<1, PriorVersion>>].kind = "coin" /\ provider[<<1, NewVersion>>].kind = "coin"
    /\ provider[<<1, PriorVersion>>].balance = 2 /\ provider[<<1, NewVersion>>].balance = 1
    /\ provider[<<1, PriorVersion>>].owner = provider[<<1, NewVersion>>].owner
    /\ Len(tx.all_changed_objects) = 2
    /\ result.ok
    /\ Len(result.records) = 1

----------------------------------------------------------------------------
(* Object-change engines: removed objects, packages, first owners. *)

\* The address that owns object o, if one does.
AddressOf(o) == IF o.owner.kind = "AddressOwner" THEN Some(o.owner.who) ELSE None

\* C18: for a removed object (Delete or Wrap) that resolves to a Move object and
\* whose id has no entry in the output objects, the extended engine emits
\* exactly one extended record, with status Deleted, routed to the address owner
\* of the resolved object, and with no routing address when that object is not
\* address-owned.
C18_PlainDeletion ==
    CustomDone =>
        \A r \in Entries(tx.all_removed_objects) :
            (ResolvesToMove(r) /\ \A o \in Entries(tx.output_objects) : o.id # r.id) =>
                /\ Cardinality(ExtendedAbout(r.id)) = 1
                /\ \A k \in ExtendedAbout(r.id) :
                      /\ result.custom[k].status = Status("Deleted")
                      /\ result.custom[k].target =
                            AddressOf(ProviderFindLe(provider, r.id, r.version)[1])

\* C18: two removed objects absent from the output objects: a wrapped one last
\* owned by address A, not an input object, reported to A; a deleted one last
\* shared, reported without a routing address.
C18_Witness ==
    /\ CustomDone
    /\ tx.output_objects = <<>>
    /\ tx.input_objects = <<>>
    /\ Len(tx.all_removed_objects) = 2
    /\ tx.all_removed_objects[1].kind = "Wrap"
    /\ tx.all_removed_objects[2].kind = "Delete"
    /\ Len(result.custom) = 2
    /\ result.custom[1].target = Some("A")
    /\ result.custom[2].target = None
    /\ result.custom[2].status = Status("Deleted")

\* The positions of the Published records about package id.
PublishedAbout(id) ==
    {k \in DOMAIN result.records :
        result.records[k].tag = "Published" /\ result.records[k].package_id = id}

\* C19: a Published record is emitted exactly once for each entry of
\* all_changed_objects that is a package with write kind Create, carrying the
\* package id, version, digest and exactly the set of the package's module
\* names; a package entry with another write kind yields no record, and a
\* package never yields a Created, Mutated, Deleted or Wrapped record.
C19_PublishedOnce ==
    (call.fn # "none" /\ result.ok) =>
        /\ \A c \in Entries(tx.all_changed_objects) :
              LET o == provider[<<c.id, c.version>>]
              IN ~HasType(o) =>
                    /\ CanonicalAbout(c.id) = {}
                    /\ Cardinality(PublishedAbout(c.id)) = IF c.kind = "Create" THEN 1 ELSE 0
                    /\ \A k \in PublishedAbout(c.id) :
                          result.records[k] =
                              [tag |-> "Published", package_id |-> c.id,
                               version |-> c.version, digest |-> c.digest,
                               modules |-> o.modules]
        /\ \A r \in Entries(tx.all_removed_objects) :
              LET found == ProviderFindLe(provider, r.id, r.version)
              IN (found # None /\ ~HasType(found[1])) =>
                    CanonicalAbout(r.id) = {} /\ PublishedAbout(r.id) = {}
        /\ \A k \in DOMAIN result.records :
              result.records[k].tag = "Published" =>
                  \E c \in Entries(tx.all_changed_objects) :
                      c.id = result.records[k].package_id /\ c.kind = "Create"
                      /\ ~HasType(provider[<<c.id, c.version>>])

\* C19: a created package with its two modules and a package written with
\* Mutate: the one record is the Published record of the first.
C19_Witness ==
    /\ BasicDone
    /\ Len(tx.all_changed_objects) = 2
    /\ tx.all_changed_objects[1].kind = "Create"
    /\ tx.all_changed_objects[2].kind = "Mutate"
    /\ ~HasType(provider[<<1, NewVersion>>]) /\ ~HasType(provider[<<2, NewVersion>>])
    /\ Len(result.records) = 1
    /\ result.records[1].tag = "Published"
    /\ result.records[1].modules = {"m1", "m2"}

\* C20: for a changed object with no pre-transaction address owner (absent from
\* the input objects, or there with an owner that is not an address) and a
\* post-transaction address owner B, the extended engine emits one extended
\* record routed to B, with status Created for write kind Create and Mutated for
\* write kind Mutate.
C20_FirstOwner ==
    CustomDone =>
        \A c \in Entries(tx.all_changed_objects) :
            \A b \in {"A", "B"} :
                (/\ c.kind \in {"Mutate", "Create"}
                 /\ HasType(provider[<<c.id, c.version>>])
                 /\ InputAddressOwners(c.id) = {}
                 /\ c.owner = AddressOwner(b)) =>
                    /\ Cardinality(ExtendedAbout(c.id)) = 1
                    /\ \A k \in ExtendedAbout(c.id) :
                          /\ result.custom[k].target = Some(b)
                          /\ result.custom[k].status =
                                Status(IF c.kind = "Create" THEN "Created" ELSE "Mutated")


----------------------------------------------------------------------------
(* Ordered publisher: progress and termination. *)

\* The batches enqueued so far on a channel, in order: those received, then those
\* still in the mailbox.
SeqsEnqueued(trace, mailbox) == SeqsOf(trace) \o SeqsOf(mailbox)

\* A batch for every sequence number from the start index up to k has been
\* enqueued, the start being the preset index or the first batch enqueued.
FilledUpTo(seqs, k) ==
    /\ init_checkpoint # U64_MAX \/ Len(seqs) > 0
    /\ LET start == IF init_checkpoint # U64_MAX THEN init_checkpoint ELSE seqs[1]
       IN /\ start <= k
          /\ \A n \in start .. k : n \in Range(seqs)

\* C21 (ws channel): with the ws task scheduled fairly, once a batch for every
\* sequence number from the start index up to k has been enqueued, the messages
\* of a batch with sequence number k are eventually all on the bus.
C21_WsGapFilledForwarded ==
    \A k \in Seqs :
        FilledUpTo(SeqsEnqueued(ws_trace, ws_mailbox), k)
        ~> (\E i \in 1 .. Len(ws_trace) :
               /\ ws_trace[i].seq = k
               /\ Range(ws_trace[i].msgs) \subseteq Range(ws_published))

\* C21: on either channel, with the consumer scheduled fairly, once a batch for
\* every sequence number from the start index up to k has been enqueued, the
\* messages of a batch with sequence number k are eventually forwarded to the
\* bus.  Stated here for the notifications channel.
C21_NtGapFilledForwarded ==
    \A k \in Seqs :
        FilledUpTo(SeqsEnqueued(nt_trace, nt_mailbox), k)
        ~> (\E i \in 1 .. Len(nt_trace) :
               /\ nt_trace[i].seq = k
               /\ Range(MapValues(nt_trace[i].notifications)) \subseteq Range(nt_published))

\* The sequence numbers start .. n-1.
PrefixSeqs(start, n) == [i \in 1 .. (n - start) |-> start + i - 1]

C22_NtClosedDrainsAndExits ==
    /\ (~nt_open) ~> (~nt_running /\ nt_mailbox = <<>>)
    /\ [](~nt_running =>
            /\ ~nt_open
            /\ nt_mailbox = <<>>
            /\ Len(nt_trace) = nt_count
            /\ (/\ HasStart(nt_trace)
                /\ Distinct(SeqsOf(nt_trace))
                /\ \A i \in 1 .. Len(nt_trace) : nt_trace[i].seq >= StartOf(nt_trace))
               => nt_sent = PrefixSeqs(StartOf(nt_trace),
                                       SmallestMissing(StartOf(nt_trace),
                                                       Range(SeqsOf(nt_trace))))
            /\ \A k \in DOMAIN nt_bmap :
                  Range(MapValues(nt_bmap[k])) \cap Range(nt_published) = {})
    /\ [][~nt_running => UNCHANGED <<nt_published, nt_bmap, nt_next_index, nt_running>>]_vars

----------------------------------------------------------------------------
(* ObjectProviderCache: what the later claims speak of. *)

\* C23: after any sequence of calls on a cache, seeded by new_with_cache or
\* not, a non-empty result of find_object_lt_or_eq_version(id, V) has a version
\* <= V and is an object of id.
C23_FindLeNotAbove ==
    (FindLeDone /\ result.ok /\ result.obj # None)
    => /\ result.obj[1].version <= call.version
       /\ result.obj[1].id = call.id

\* C23 witness: on a seeded cache, a query answered from the cache alone with an
\* object of a version below the queried one.
C23_Witness ==
    /\ FindLeDone
    /\ tx.written_objects # <<>>
    /\ result.ok
    /\ result.obj # None
    /\ result.obj[1].version < call.version
    /\ lookups = <<>>

\* C27: every call cache.find_le(id, v) that the provider does not fail returns
\* what a direct provider.find_le(id, v) would return at that moment, whatever
\* the provider has learned since an earlier query or since the seeding.
C27_FindLeAsProvider ==
    [][(FindLeStep /\ ~call'.fails)
       => /\ result'.ok
          /\ result'.obj = ProviderFindLe(provider, call'.id, call'.version)]_vars

\* C27 as the code has it: when (id, v) is in the resolved-le map, by an earlier
\* identical query or by the seeding, the result is the object held for the
\* version memoized there, whatever the provider knows now; only otherwise is it
\* what provider.find_le(id, v) returns at that moment.
C27_FindLeMemoizedElseProvider ==
    [][(FindLeStep /\ ~call'.fails)
       => /\ result'.ok
          /\ result'.obj =
                IF <<call'.id, call'.version>> \in DOMAIN last_version_cache
                THEN Some(object_cache[<<call'.id,
                                         last_version_cache[<<call'.id, call'.version>>]>>])
                ELSE ProviderFindLe(provider, call'.id, call'.version)]_vars

\* C27 witness: a query answered from the resolved-le map with an object that is
\* not the one the provider's find_le returns in the same state.
C27_Witness ==
    /\ FindLeDone
    /\ ~call.fails
    /\ lookups = <<>>
    /\ result.obj # None
    /\ result.obj # ProviderFindLe(provider, call.id, call.version)

----------------------------------------------------------------------------
(* Object-change engines: what the later claims speak of. *)

\* A changed entry whose object is a Move object.
ChangedMove(c) == HasType(provider[<<c.id, c.version>>])

\* C24: in the canonical output of either object-change engine, every Move
\* object of a changed entry and every removed entry that resolves to a Move
\* object appears in exactly one Created, Mutated, Deleted or Wrapped record.
C24_ExactlyOneCanonical ==
    (BasicDone \/ CustomDone) =>
        /\ \A c \in Entries(tx.all_changed_objects) :
              ChangedMove(c) => Cardinality(CanonicalAbout(c.id)) = 1
        /\ \A r \in Entries(tx.all_removed_objects) :
              ResolvesToMove(r) => Cardinality(CanonicalAbout(r.id)) = 1

\* C24 as the code has it: in the canonical output of either engine a Move
\* object written with Create or Mutate, and a removed object that resolves
\* through the provider to a Move object, appear in exactly one record; a Move
\* object written with Unwrap, a removed object for which nothing resolves,
\* and a package appear in none; no object appears in two.
C24_OneExceptUnwrapAndUnresolved ==
    (BasicDone \/ CustomDone) =>
        /\ \A c \in Entries(tx.all_changed_objects) :
              Cardinality(CanonicalAbout(c.id))
                 = IF ChangedMove(c) /\ c.kind \in {"Create", "Mutate"} THEN 1 ELSE 0
        /\ \A r \in Entries(tx.all_removed_objects) :
              Cardinality(CanonicalAbout(r.id)) = IF ResolvesToMove(r) THEN 1 ELSE 0
        /\ \A k \in DOMAIN result.records :
              result.records[k].tag # "Published" =>
                  \E x \in Entries(tx.all_changed_objects) \cup Entries(tx.all_removed_objects) :
                      x.id = result.records[k].object_id

\* C24 witness: the extended engine returned for a transaction that unwrapped one
\* Move object, for which there is no canonical record, and deleted another, for
\* which there is one.
C24_Witness ==
    /\ CustomDone
    /\ \E c \in Entries(tx.all_changed_objects) :
          c.kind = "Unwrap" /\ ChangedMove(c) /\ CanonicalAbout(c.id) = {}
    /\ \E r \in Entries(tx.all_removed_objects) :
          r.kind = "Delete" /\ ResolvesToMove(r) /\ Cardinality(CanonicalAbout(r.id)) = 1

\* A removed entry that resolves to a Move object, whose id is among the output
\* objects and not among the input objects.
MissingInputOwner(r) ==
    /\ ResolvesToMove(r)
    /\ \E o \in Entries(tx.output_objects) : o.id = r.id
    /\ \A o \in Entries(tx.input_objects) : o.id # r.id

\* C29: when a removed object is among the output objects and not among the
\* input objects, the extended engine returns success, with no extended record
\* about it and with its canonical Deleted or Wrapped record; every other
\* removed object that resolves to a Move object and is not in that case has its
\* canonical record and its extended record.
C29_MissingInputOwnerSkipped ==
    call.fn = "custom_get_object_changes" =>
        \A r \in Entries(tx.all_removed_objects) :
            MissingInputOwner(r) =>
                /\ result.ok
                /\ ExtendedAbout(r.id) = {}
                /\ {result.records[k] : k \in CanonicalAbout(r.id)}
                      = {[tag |-> IF r.kind = "Delete" THEN "Deleted" ELSE "Wrapped",
                          sender |-> tx.sender,
                          object_type |->
                              ObjectTypeOf(ProviderFindLe(provider, r.id, r.version)[1]),
                          object_id |-> r.id, version |-> r.version]}
                /\ Cardinality(CanonicalAbout(r.id)) = 1
                /\ \A q \in Entries(tx.all_removed_objects) :
                      (ResolvesToMove(q) /\ ~MissingInputOwner(q)) =>
                          /\ Cardinality(CanonicalAbout(q.id)) = 1
                          /\ Cardinality(ExtendedAbout(q.id)) = 1

\* C29 witness: two removed objects, the first among the output objects and not
\* among the input objects, the second processed after it with its extended
\* record.
C29_Witness ==
    /\ CustomDone
    /\ Len(tx.all_removed_objects) = 2
    /\ MissingInputOwner(tx.all_removed_objects[1])
    /\ ~MissingInputOwner(tx.all_removed_objects[2])
    /\ Len(result.records) = 2
    /\ Len(result.custom) = 1
    /\ ExtendedAbout(tx.all_removed_objects[2].id) # {}

----------------------------------------------------------------------------
(* Ordered publisher: the pending buffer. *)

\* C28: between receive steps every key of the ws task's pending buffer is
\* strictly greater than the expected-next index; no batch for a sequence
\* number already flushed is retained.
C28_BufferAheadOfIndex ==
    \A k \in DOMAIN ws_bmap : k > ws_next_index

----------------------------------------------------------------------------
(* Balance-change engines: the owners of the records. *)

\* C26: every record returned by either balance-change engine for a Success
\* transaction has an address as its owner; a coin that is shared, immutable or
\* owned by an object appears in no record.
C26_RecordsOfAddressOwners ==
    (BalanceDone /\ result.ok) =>
        \A k \in DOMAIN result.records : result.records[k].owner.kind = "AddressOwner"

----------------------------------------------------------------------------
(* The engines over a failing provider: what the claim speaks of. *)

\* The error the provider returns for lookup l, if it returns one: for get, that
\* of an unreadable cell or the error of a cell it does not have; for find_le,
\* that of the unreadable cell at the greatest version <= the queried one.
LookupError(l) ==
    IF l.op = "get_object"
    THEN IF <<l.id, l.version>> \notin DOMAIN provider THEN Some("ProviderError")
         ELSE IF provider[<<l.id, l.version>>].kind = "unreadable"
         THEN Some(provider[<<l.id, l.version>>].error)
         ELSE None
    ELSE LET vs == {c[2] : c \in {x \in DOMAIN provider : x[1] = l.id /\ x[2] <= l.version}}
         IN IF vs = {} THEN None
            ELSE LET top == provider[<<l.id, CHOOSE v \in vs : \A w \in vs : w <= v>>]
                 IN IF top.kind = "unreadable" THEN Some(top.error) ELSE None

\* C25: when a provider lookup made during a call of one of the four engines
\* returns an error, the call returns that error and no record, canonical or
\* extended, and the failed lookup is the last lookup of the call, made once.
C25_ProviderErrorPropagates ==
    call.fn # "none" =>
        LET failing == {k \in DOMAIN lookups : LookupError(lookups[k]) # None}
        IN failing # {} =>
              /\ failing = {Len(lookups)}
              /\ ~result.ok
              /\ result.err = LookupError(lookups[Len(lookups)])[1]
              /\ result.records = <<>>
              /\ "custom" \in DOMAIN result => result.custom = <<>>

\* C25 witness: the extended object-change engine looked up a changed object,
\* then got error E2 from find_le for a removed one, and returned E2.
C25_Witness ==
    /\ call.fn = "custom_get_object_changes"
    /\ Len(lookups) = 2
    /\ lookups[1].op = "get_object"
    /\ lookups[2].op = "find_object_lt_or_eq_version"
    /\ LookupError(lookups[2]) = Some("E2")
    /\ result.err = "E2"

----------------------------------------------------------------------------
(* ObjectProviderCache shared by tasks: what the claim speaks of. *)

\* C30: no call of the wrapped provider, get or find_le, is made by a task that
\* holds a guard on either map of the cache; in particular a get_object
\* delegated by find_le under the read guard of last_version_cache finds its
\* object in object_cache and does not reach the provider.
C30_NoProviderCallUnderLock ==
    /\ \A l \in lookups : l.held = {}
    /\ \A t \in Tasks : call[t].held # {} => call[t].pc = "get_read"

\* C30 witness: a task is in the get_object its find_le delegated to, the read
\* guard of last_version_cache alive, on an entry that a find_le resolved
\* through the provider, while the other task waits to insert into
\* last_version_cache.
C30_Witness ==
    /\ call["t1"].pc = "get_read"
    /\ call["t1"].held = {<<"last_version_cache", "read">>}
    /\ call["t1"].at < call["t1"].version
    /\ call["t2"].pc = "find_insert_2"
    /\ \E l \in lookups : l.op = "find_object_lt_or_eq_version"

----------------------------------------------------------------------------
(* ObjectProviderCache shared by tasks: races. *)

\* The call c made on a cache with no other call in progress.
Alone(cache, c) ==
    IF c.fn = "get_object"
    THEN cache_get_object(cache, provider, FALSE, c.id, c.version)
    ELSE cache_find_object_lt_or_eq_version(cache, provider, FALSE, c.id, c.version)

\* The calls of the two tasks made one after the other on the cache as built.
OneAfterTheOther ==
    LET first  == Alone(new_with_cache(tx.written_objects), tx.calls["t1"])
        second == Alone(first.cache, tx.calls["t2"])
    IN [first |-> first, second |-> second]

\* Every entry of map m is an entry of map n.
SubMap(m, n) == \A k \in DOMAIN m : k \in DOMAIN n /\ m[k] = n[k]

\* Task t has its answer.
HasReturned(t) == call[t].pc = "idle" /\ result[t] # NoResult

\* What the caller sees of a result: Ok or Err, and the object.
Seen(r) == [ok |-> r.ok, obj |-> r.obj]

\* C31: two tasks make the same call, get_object(id, v) or
\* find_object_lt_or_eq_version(id, v), on one cache at the same time.  Under
\* every interleaving of their lock acquisitions and provider calls no key of
\* either map is ever mapped to an object or version other than the one the two
\* calls made one after the other leave, and once both have returned they have
\* received the same object and both maps equal those the calls made one after
\* the other leave.
C31_RaceAsOneAfterTheOther ==
    tx.calls["t1"] = tx.calls["t2"] =>
        LET seq == OneAfterTheOther
        IN /\ SubMap(object_cache, seq.second.cache.object_cache)
           /\ SubMap(last_version_cache, seq.second.cache.last_version_cache)
           /\ (HasReturned("t1") /\ HasReturned("t2")) =>
                 /\ Seen(result["t1"]) = Seen(result["t2"])
                 /\ Seen(result["t1"]) = Seen(seq.first)
                 /\ object_cache = seq.second.cache.object_cache
                 /\ last_version_cache = seq.second.cache.last_version_cache

\* C31 witness: both tasks asked find_le about a version the cache as built had
\* not resolved, both missed and asked the wrapped provider, both inserted, and
\* both have returned the object, no run dropped.
C31_Witness ==
    /\ tx.calls["t1"] = tx.calls["t2"]
    /\ tx.calls["t1"].fn = "find_object_lt_or_eq_version"
    /\ <<1, tx.calls["t1"].version>> \notin DOMAIN new_with_cache(tx.written_objects).last_version_cache
    /\ \A t \in Tasks : /\ HasReturned(t)
                        /\ result[t].looked
                        /\ result[t].obj # None
                        /\ ~call[t].dropped

\* Task t has not called yet.
NotBegun(t) == call[t] = IdleFrame /\ result[t] = NoResult

\* C32: in every state of a cache shared by tasks, the state between the two
\* inserts of a find_le miss and the state after a call's future is dropped at
\* any await included, every last_version_cache entry (id, q) -> r has its
\* object_cache entry (id, r), the object at version r; and a call that was
\* dropped and made again returns what an uninterrupted run returns and leaves
\* the maps an uninterrupted run leaves.
C32_ResolvedHasExact ==
    /\ \A k \in DOMAIN last_version_cache :
          /\ <<k[1], last_version_cache[k]>> \in DOMAIN object_cache
          /\ object_cache[<<k[1], last_version_cache[k]>>].version = last_version_cache[k]
    /\ \A t \in Tasks : (call[t].dropped /\ HasReturned(t)) =>
          LET alone == Alone(new_with_cache(tx.written_objects), tx.calls[t])
              both  == OneAfterTheOther.second.cache
          IN /\ Seen(result[t]) = Seen(alone)
             /\ SubMap(alone.cache.object_cache, object_cache)
             /\ SubMap(alone.cache.last_version_cache, last_version_cache)
             /\ \A u \in Tasks \ {t} :
                   /\ NotBegun(u) => /\ object_cache = alone.cache.object_cache
                                     /\ last_version_cache = alone.cache.last_version_cache
                   /\ HasReturned(u) => /\ object_cache = both.object_cache
                                        /\ last_version_cache = both.last_version_cache

\* C32 witness: the first task's find_le missed, was dropped and made again, and
\* has returned its object, while the second task is between the two inserts of
\* its own find_le miss.
C32_Witness ==
    /\ call["t1"].dropped
    /\ HasReturned("t1")
    /\ result["t1"].fn = "find_object_lt_or_eq_version"
    /\ result["t1"].looked
    /\ result["t1"].obj # None
    /\ call["t2"].pc = "find_insert_2"
    /\ <<1, call["t2"].version>> \notin DOMAIN last_version_cache

----------------------------------------------------------------------------


\* C36: no interleaving of concurrent get_object and
\* find_object_lt_or_eq_version calls on one cache deadlocks: with every
\* provider call returning and the locks granted fairly, every call a task is
\* in eventually completes, the find_le hit path that takes the read guard of
\* object_cache under the read guard of last_version_cache included.
C36_EveryCallCompletes ==
    \A t \in Tasks : (call[t].pc # "idle") ~> (call[t].pc = "idle")

\* C36 witness: a task is in the get_object its find_le delegated to, holding
\* the read guard of last_version_cache, while the other task is queued for the
\* write guard of that map and cannot take it.
C36_Witness ==
    /\ call["t1"].pc = "get_read"
    /\ call["t1"].held = {<<"last_version_cache", "read">>}
    /\ call["t2"].pc = "find_insert_2"
    /\ ~CanWrite("t2", "last_version_cache")

----------------------------------------------------------------------------
(* ObjectProviderCache: errors of the wrapped provider. *)

\* The wrapped provider failed a call of this step: it answered with an error of
\* its own, or was asked by get_object for an object it does not have.
ProviderFailed ==
    \E k \in DOMAIN lookups' :
        \/ call'.fails
        \/ /\ lookups'[k].op = "get_object"
           /\ ~ProviderGet(provider, lookups'[k].id, lookups'[k].version).ok

\* C34: the cache never turns an error of the wrapped provider into an empty
\* result.  When find_object_lt_or_eq_version on the cache returns Ok(None), the
\* wrapped provider's find_object_lt_or_eq_version was called for that very
\* query and returned Ok(None); and when the wrapped provider fails a call made
\* during a get_object or a find_object_lt_or_eq_version on the cache, the
\* caller receives Err with that error.
C34_ErrorNeverEmpty ==
    [][/\ (FindLeStep /\ result'.ok /\ result'.obj = None) =>
             /\ lookups' = <<FindLeCall(call'.id, call'.version)>>
             /\ ~call'.fails
             /\ ProviderFindLe(provider, call'.id, call'.version) = None
       /\ ((FindLeStep \/ GetStep) /\ ProviderFailed) =>
             /\ ~result'.ok
             /\ call'.fails => result'.err = "ProviderError"]_vars

\* C34 witness: find_object_lt_or_eq_version on the cache missed, the wrapped
\* provider answered with an error, and the caller has that error; the cache
\* holds entries resolved earlier.
C34_Witness ==
    /\ FindLeDone
    /\ call.fails
    /\ lookups = <<FindLeCall(call.id, call.version)>>
    /\ ~result.ok
    /\ result.err = "ProviderError"
    /\ \E k \in DOMAIN last_version_cache : last_version_cache[k] < k[2]

----------------------------------------------------------------------------
(* Ordered publisher: batches with the same sequence number. *)

\* The iterations before the j-th that received a batch with sequence number s
\* while s was greater than the expected-next index.
AheadIters(trace, s, j) ==
    {i \in 1 .. j - 1 : trace[i].seq = s /\ trace[i].seq > trace[i].expected}

\* The j-th iteration forwarded its batch and released the buffer entry of s.
ReleasedAt(trace, s, j) ==
    /\ trace[j].seq = trace[j].expected
    /\ trace[j].expected < s
    /\ s < trace[j].next_after

\* sub occurs in seq as a run of consecutive elements.
OccursIn(sub, seq) ==
    \E k \in 0 .. Len(seq) - Len(sub) : SubSeq(seq, k + 1, k + Len(sub)) = sub

\* The messages of the batches received ahead under s at iterations i..j-1, in
\* arrival order.
RECURSIVE WsMerged(_, _, _, _)
WsMerged(trace, s, i, j) ==
    IF i >= j THEN <<>>
    ELSE (IF i \in AheadIters(trace, s, j) THEN trace[i].msgs ELSE <<>>)
         \o WsMerged(trace, s, i + 1, j)

\* The notification Vecs of the batches received ahead under s at iterations
\* i..j-1, in arrival order.
RECURSIVE NtMerged(_, _, _, _)
NtMerged(trace, s, i, j) ==
    IF i >= j THEN <<>>
    ELSE (IF i \in AheadIters(trace, s, j) THEN MapValues(trace[i].notifications)
          ELSE <<>>)
         \o NtMerged(trace, s, i + 1, j)

\* C33 on the ws channel: when two or more batches with the same sequence number
\* arrived while that number was ahead of the expected-next index and the number
\* has since become expected, every message of all those batches is on the bus,
\* in arrival order of the batches.
C33_WsMergedForwarded ==
    \A s \in Seqs, j \in 1 .. Len(ws_trace) :
        (ReleasedAt(ws_trace, s, j) /\ Cardinality(AheadIters(ws_trace, s, j)) >= 2)
        => OccursIn(WsMerged(ws_trace, s, 1, j), ws_published)

\* The ws case of C33: two batches were merged under one sequence number and
\* released.
C33_WsWitness ==
    \E s \in Seqs, j \in 1 .. Len(ws_trace) :
        ReleasedAt(ws_trace, s, j) /\ Cardinality(AheadIters(ws_trace, s, j)) >= 2

\* C33: when two or more batches with the same sequence number arrived on the
\* notifications channel while that number was ahead of the expected-next index
\* and the number has since become expected, every notification of all those
\* batches is on the bus, in arrival order of the batches: merging into the
\* pending-buffer entry loses nothing.
C33_NtMergedForwarded ==
    \A s \in Seqs, j \in 1 .. Len(nt_trace) :
        (ReleasedAt(nt_trace, s, j) /\ Cardinality(AheadIters(nt_trace, s, j)) >= 2)
        => OccursIn(NtMerged(nt_trace, s, 1, j), nt_published)

----------------------------------------------------------------------------
(* Ordered publisher: the index at the top of its integer type. *)

\* C35: once the expected-next index of the ws channel is initialized it never
\* returns to the uninitialized state and never decreases, whatever the
\* sequence numbers: forwarding the batch numbered u64::MAX - 1 does not leave
\* the index at the value that means "uninitialized", and incrementing past
\* u64::MAX does not wrap it around.
C35_IndexStaysInitialized ==
    [][ws_next_index # U64_MAX =>
          /\ ws_next_index' # U64_MAX
          /\ ws_next_index' >= ws_next_index]_vars

----------------------------------------------------------------------------
(* Balance-change engines: the extended engine against the basic one. *)

\* The coin records of the extended engine's result: all but the final gas
\* record.
ExtendedCoinRecords == SubSeq(result.records, 1, Len(result.records) - 1)

\* The sum of the amounts of the records at the entries idx.
RECURSIVE SumAmounts(_, _)
SumAmounts(records, idx) ==
    IF idx = {} THEN 0
    ELSE LET i == CHOOSE x \in idx : TRUE
         IN records[i].amount + SumAmounts(records, idx \ {i})

\* The entries of the coin records about an owner and coin type.
EntriesOf(k) ==
    {i \in 1 .. Len(ExtendedCoinRecords) :
        <<ExtendedCoinRecords[i].owner, ExtendedCoinRecords[i].coin_type>> = k}

\* The coin records summed per (owner, coin type), the zero sums dropped.
SummedPerOwnerAndType ==
    LET keys == {<<ExtendedCoinRecords[i].owner, ExtendedCoinRecords[i].coin_type>> :
                    i \in 1 .. Len(ExtendedCoinRecords)}
    IN {[owner |-> k[1], coin_type |-> k[2],
         amount |-> SumAmounts(ExtendedCoinRecords, EntriesOf(k))] :
           k \in {x \in keys : SumAmounts(ExtendedCoinRecords, EntriesOf(x)) # 0}}

\* What the basic engine returns on the transaction and mocked coin of the call.
BasicOnSame == get_balance_changes_from_effect(provider, tx, tx.input_objs, call.mocked_coin)

\* C37: for a Success transaction on which the extended balance-change engine
\* returns, its coin records (all but the final gas record) summed per (owner,
\* coin type), the zero sums dropped, are exactly the records the basic engine
\* returns for the same provider, effects, input object kinds and mocked coin,
\* each once.
C37_ExtendedSumsToBasic ==
    (ExtendedDone /\ result.ok) =>
        /\ BasicOnSame.ok
        /\ Range(BasicOnSame.records) = SummedPerOwnerAndType
        /\ Len(BasicOnSame.records) = Cardinality(SummedPerOwnerAndType)

\* C37 witness: the extended engine returned two coin records of one owner and
\* coin type about different objects, which sum to one record of the basic
\* engine.
C37_Witness ==
    /\ ExtendedDone
    /\ result.ok
    /\ \E i, j \in 1 .. Len(ExtendedCoinRecords) :
          /\ i # j
          /\ ExtendedCoinRecords[i].owner = ExtendedCoinRecords[j].owner
          /\ ExtendedCoinRecords[i].coin_type = ExtendedCoinRecords[j].coin_type
          /\ ExtendedCoinRecords[i].amount + ExtendedCoinRecords[j].amount # 0
    /\ BasicOnSame.records # <<>>

========================================================================
